---- MODULE Spec2Model ----
(***************************************************************************)
(* Editorial extraction pipeline of codeforces-editorial-finder.           *)
(*                                                                         *)
(* The repository holds three implementations of get_editorial:            *)
(*   "async"   application/orchestrator.py  AsyncEditorialOrchestrator     *)
(*   "service" services/editorial.py        get_editorial                  *)
(*   "sync"    codeforces_editorial/orchestrator.py EditorialOrchestrator  *)
(*             on top of codeforces_editorial/cache.py EditorialCache      *)
(* and several CachedEditorial classes.  The model keeps them apart with   *)
(* the variable variant (and fmt for the serialization formats).           *)
(***************************************************************************)
EXTENDS Integers, Sequences, FiniteSets, TLC

VARIABLES
    variant,        \* which get_editorial implementation is deployed
    cache_ttl_hours,\* settings.cache_ttl_hours, the TTL the store applies
    now,            \* wall clock, seconds
    ticks,          \* number of clock advances so far
    store,          \* the cache store: key -> stored item or NoItem
    pc,             \* per run: position in get_editorial
    args,           \* per run: url, use_cache, cache_client of the call
    local,          \* per run: local variables of get_editorial
    calls,          \* per run: collaborator calls made so far, in order
    result,         \* per run: what get_editorial gave its caller
    rt,             \* serialization round trip under test (SpecRoundTrip)
    http,           \* the HTTP client and its get call in flight (SpecFetch)
    parser,         \* the caller of the HTTP client: a parser call (SpecFetch)
    extract,        \* an EditorialExtractor.extract call (SpecExtract)
    urlcase,        \* a URLParser call under test (SpecUrl)
    finder,         \* a TutorialFinder.find_tutorial call (SpecFind)
    clients,        \* the clients of one pipeline run and their scope (SpecClients)
    keycase         \* two identifiers and their cache keys (SpecKey)

\* The variables of get_editorial
pipeline == <<variant, cache_ttl_hours, now, ticks, store, pc, args, local, calls, result>>

vars == <<variant, cache_ttl_hours, now, ticks, store, pc, args, local, calls, result, rt,
          http, parser, extract, urlcase, finder, clients, keycase>>

----------------------------------------------------------------------------
(* Bounds of the model *)

MaxTicks == 2

Runs == {"r1", "r2"}

\* The callers of the specification Spec: one call of get_editorial at a time,
\* one after the other
Sequential == {"r1"}

Variants == {"async", "service", "sync"}

----------------------------------------------------------------------------
(* Time: datetime values are [sec, usec]; datetime.now() has usec too.      *)

SECONDS_PER_HOUR == 3600

DEFAULT_TTL_HOURS == 168

\* Half an hour, in seconds
HalfHour == SECONDS_PER_HOUR \div 2

\* The clock advances by half an hour or by exactly the default TTL.
TickSteps == {HalfHour, DEFAULT_TTL_HOURS * SECONDS_PER_HOUR}

DateTime(s, us) == [sec |-> s, usec |-> us]

\* (a - b).total_seconds() > h * 3600, on exact microseconds:
\* the difference is (a.sec - b.sec) seconds plus (a.usec - b.usec) microseconds,
\* the latter strictly between -1 s and 1 s.
total_seconds_gt_hours(a, b, h) ==
    \/ a.sec - b.sec > h * SECONDS_PER_HOUR
    \/ a.sec - b.sec = h * SECONDS_PER_HOUR /\ a.usec - b.usec > 0

----------------------------------------------------------------------------
(* domain/models.py *)

TutorialFormat == {"html", "pdf", "unknown"}

\* A format value that is a plain str, not a TutorialFormat member
\* (tests/test_editorial_service.py passes "BLOG_POST").
PlainStrFormat == "BLOG_POST"

ProblemIdentifier(c, p, g) == [contest_id |-> c, problem_id |-> p, is_gym |-> g]

\* ProblemIdentifier.full_id: contest_id and problem_id concatenated
full_id(id) == <<id.contest_id, id.problem_id>>

\* ProblemIdentifier.cache_key: "editorial_" [ "gym_" ] contest_id "_" problem_id
cache_key(id) ==
    <<"editorial_", IF id.is_gym THEN "gym_" ELSE "", id.contest_id, "_", id.problem_id>>

\* EditorialCache._get_key: "editorial_" contest_id "_" problem_id
_get_key(id) == <<"editorial_", id.contest_id, "_", id.problem_id>>

Editorial(pid, text, src, at) ==
    [problem_id |-> pid, solution_text |-> text, source_url |-> src, extracted_at |-> at]

CachedEditorial(id, ed, url, tfmt, at, ttl) ==
    [problem |-> id, editorial |-> ed, tutorial_url |-> url, tutorial_format |-> tfmt,
     cached_at |-> at, ttl_hours |-> ttl]

\* CachedEditorial.is_expired at wall-clock time t:
\* age_hours = (now - cached_at).total_seconds() / 3600;  age_hours > ttl_hours
is_expired(c, t) == total_seconds_gt_hours(t, c.cached_at, c.ttl_hours)

\* datetime.isoformat(): "YYYY-MM-DDTHH:MM:SS", with ".ffffff" only when the
\* microsecond part is not zero.  The text is modelled by its fields.
isoformat(d) == IF d.usec = 0 THEN <<"iso", d.sec>> ELSE <<"iso", d.sec, d.usec>>

\* datetime.fromisoformat()
fromisoformat(s) == IF Len(s) = 2 THEN DateTime(s[2], 0) ELSE DateTime(s[2], s[3])

\* What a raising call yields in the model
Raised(kind) == [raised |-> kind]

IsRaised(v) == "raised" \in DOMAIN v

----------------------------------------------------------------------------
(* Serialization of CachedEditorial.  Three classes of that name exist:     *)
(*   "models" domain/models.py                                              *)
(*   "draft"  domain/models/cached_editorial.py                             *)
(*   "root"   cached_editorial.py                                           *)

Formats == {"models", "draft", "root"}

\* domain/models.py CachedEditorial.to_dict
\* tutorial_format.value exists only on TutorialFormat members
to_dict_models(c) ==
    IF c.tutorial_format \notin TutorialFormat
    THEN Raised("AttributeError")
    ELSE [problem |-> [contest_id |-> c.problem.contest_id,
                       problem_id |-> c.problem.problem_id,
                       is_gym |-> c.problem.is_gym],
          editorial |-> [problem_id |-> c.editorial.problem_id,
                         solution_text |-> c.editorial.solution_text,
                         source_url |-> c.editorial.source_url,
                         extracted_at |-> isoformat(c.editorial.extracted_at)],
          tutorial_url |-> c.tutorial_url,
          tutorial_format |-> c.tutorial_format,
          cached_at |-> isoformat(c.cached_at),
          ttl_hours |-> c.ttl_hours]

\* The keys from_dict of domain/models.py subscripts
ModelsKeys == {"problem", "editorial", "tutorial_url", "tutorial_format", "cached_at", "ttl_hours"}

\* domain/models.py CachedEditorial.from_dict
from_dict_models(data) ==
    IF ~(ModelsKeys \subseteq DOMAIN data)
    THEN Raised("KeyError")
    ELSE IF data.tutorial_format \notin TutorialFormat
    THEN Raised("ValueError")
    ELSE CachedEditorial(
            ProblemIdentifier(data.problem.contest_id, data.problem.problem_id,
                              data.problem.is_gym),
            Editorial(data.editorial.problem_id, data.editorial.solution_text,
                      data.editorial.source_url,
                      fromisoformat(data.editorial.extracted_at)),
            data.tutorial_url, data.tutorial_format,
            fromisoformat(data.cached_at), data.ttl_hours)

\* domain/models/cached_editorial.py CachedEditorial.to_dict:
\* {"editorial": self.editorial.tutorial_text}; no Editorial class of the
\* repository has a tutorial_text attribute, the read raises.
to_dict_draft(c) == Raised("AttributeError")

\* domain/models/cached_editorial.py CachedEditorial.from_dict:
\* Editorial(problem_id="", tutorial_text=data["editorial"]); tutorial_text is
\* no field of Editorial, the constructor raises.
from_dict_draft(data) ==
    IF "editorial" \notin DOMAIN data THEN Raised("KeyError") ELSE Raised("TypeError")

\* cached_editorial.py CachedEditorial.to_dict:
\* {"editorial": self.editorial.to_dict()}; Editorial defines no to_dict.
to_dict_root(c) == Raised("AttributeError")

\* cached_editorial.py CachedEditorial.from_dict:
\* Editorial.from_dict(data.get("editorial", {})); Editorial defines no from_dict.
from_dict_root(data) == Raised("AttributeError")

to_dict(fmt, c) ==
    CASE fmt = "models" -> to_dict_models(c)
      [] fmt = "draft"  -> to_dict_draft(c)
      [] fmt = "root"   -> to_dict_root(c)

from_dict(fmt, data) ==
    CASE fmt = "models" -> from_dict_models(data)
      [] fmt = "draft"  -> from_dict_draft(data)
      [] fmt = "root"   -> from_dict_root(data)

----------------------------------------------------------------------------
(* Failure kinds.  The exception classes (domain/exceptions.py,             *)
(* codeforces_editorial/utils/exceptions.py) are not part of the sources;   *)
(* the taxonomy is the one of the specification: every kind below derives   *)
(* from CodeforcesEditorialError.  URLParseError stands for both spellings  *)
(* (URLParseError, URLParsingError).                                        *)

DomainErrors ==
    {"CodeforcesEditorialError", "URLParseError", "NotFoundError", "NetworkError",
     "ParsingError", "EditorialNotFoundError", "ExtractionError", "CacheError"}

\* Exceptions that are not domain failures
OtherErrors == {"TypeError", "RuntimeError", "UnboundLocalError", "AttributeError",
                "KeyError", "ValueError", "ConnectionError"}

\* isinstance(e, CodeforcesEditorialError)
IsDomainError(e) == e.kind \in DomainErrors

Exc(kind, cause) == [kind |-> kind, cause |-> cause]

NoCause == "None"

----------------------------------------------------------------------------
(* URLs and the two URL parsers *)

\* A url that is a str: the scheme before "://" ("" without one) and the text
\* after it, split at "/" into segments; the first segment is host, the rest
\* path.  A segment is the sequence of its tokens, so that a text can end or
\* start with what a pattern looks for: "notcodeforces.com" is
\* <<"not", "codeforces.com">>, "Abc" is <<"A", "bc">>.
Url(scheme, host, path) == [is_str |-> TRUE, scheme |-> scheme, host |-> host, path |-> path]

\* A url argument that is no str (None)
NotAStr == [is_str |-> FALSE, scheme |-> "", host |-> <<>>, path |-> <<>>]

\* A segment of one token
Seg(w) == <<w>>

UrlInputs ==
    { Url("https", Seg("codeforces.com"),
          <<Seg("problemset"), Seg("problem"), Seg("1234"), Seg("A")>>),
      Url("https", Seg("codeforces.com"),
          <<Seg("contest"), Seg("1234"), Seg("problem"), Seg("B")>>),
      Url("https", Seg("codeforces.ru"),
          <<Seg("gym"), Seg("1234"), Seg("problem"), Seg("A")>>),
      Url("https", Seg("codeforces.com"), <<Seg("blog"), Seg("entry"), Seg("1234")>>),
      NotAStr }

\* \d+
Digits == {"7", "007", "1234"}

\* [A-Z]\d*
Indexes == {"A", "B", "B1"}

\* codeforces\.(com|ru)
CodeforcesHosts == {"codeforces.com", "codeforces.ru"}

\* int(contest_id) of a str of digits; -1 is the fallback of the constructor
int_(c) == CASE c = "7" -> 7 [] c = "007" -> 7 [] c = "1234" -> 1234 [] OTHER -> -1

\* f"{contest_id}" of an int
str_(n) == CASE n = 7 -> "7" [] n = 1234 -> "1234" [] OTHER -> "-1"

\* domain/models/problem.py ProblemIdentifier.__init__: a str contest_id
\* becomes an int
ProblemIdentifier_init(c, p, g) == ProblemIdentifier(int_(c), p, g)

\* The segments of the whole text
Segments(u) == <<u.host>> \o u.path

\* urlparse(url).netloc: empty without "scheme://"
netloc(u) == IF u.scheme = "" THEN <<>> ELSE u.host

\* The segment ends with codeforces\.(com|ru)
EndsWithCodeforces(seg) == seg # <<>> /\ seg[Len(seg)] \in CodeforcesHosts

\* /(\d+)/ : the segment is digits
IsDigits(seg) == Len(seg) = 1 /\ seg[1] \in Digits

\* /([A-Z]\d*) : the segment starts with an index
StartsWithIndex(seg) == seg # <<>> /\ Head(seg) \in Indexes

\* r"codeforces\.(com|ru)/contest/(\d+)/problem/([A-Z]\d*)" matches at segment i
ContestAt(s, i) ==
    /\ i + 4 <= Len(s)
    /\ EndsWithCodeforces(s[i])
    /\ s[i + 1] = Seg("contest") /\ IsDigits(s[i + 2])
    /\ s[i + 3] = Seg("problem") /\ StartsWithIndex(s[i + 4])

\* r"codeforces\.(com|ru)/problemset/problem/(\d+)/([A-Z]\d*)" matches at segment i
ProblemsetAt(s, i) ==
    /\ i + 4 <= Len(s)
    /\ EndsWithCodeforces(s[i])
    /\ s[i + 1] = Seg("problemset") /\ s[i + 2] = Seg("problem")
    /\ IsDigits(s[i + 3]) /\ StartsWithIndex(s[i + 4])

\* r"codeforces\.(com|ru)/gym/(\d+)/problem/([A-Z]\d*)" matches at segment i
GymAt(s, i) ==
    /\ i + 4 <= Len(s)
    /\ EndsWithCodeforces(s[i])
    /\ s[i + 1] = Seg("gym") /\ IsDigits(s[i + 2])
    /\ s[i + 3] = Seg("problem") /\ StartsWithIndex(s[i + 4])

\* re.search: the leftmost place of the text where the pattern matches, 0 if none
FirstOf(hits) == IF hits = {} THEN 0 ELSE CHOOSE i \in hits : \A j \in hits : i <= j

MatchContest(u) == FirstOf({i \in 1..Len(Segments(u)) : ContestAt(Segments(u), i)})

MatchProblemset(u) == FirstOf({i \in 1..Len(Segments(u)) : ProblemsetAt(Segments(u), i)})

MatchGym(u) == FirstOf({i \in 1..Len(Segments(u)) : GymAt(Segments(u), i)})

\* "/gym/" in url
HasGymSegment(u) ==
    \E i \in 1..(Len(Segments(u)) - 1) :
        Segments(u)[i] = Seg("gym") /\ (i > 1 \/ u.scheme # "")

\* codeforces_editorial/parsers/url_parser.py URLParser.parse
\* urlparse(None) gives empty components, so a non-str ends in URLParseError too.
parse_sync(u) ==
    IF ~u.is_str \/ u.scheme = "" \/ netloc(u) = <<>>
    THEN Raised("URLParseError")
    ELSE IF MatchContest(u) # 0
    THEN ProblemIdentifier(Segments(u)[MatchContest(u) + 2][1],
                           Head(Segments(u)[MatchContest(u) + 4]), HasGymSegment(u))
    ELSE IF MatchProblemset(u) # 0
    THEN ProblemIdentifier(Segments(u)[MatchProblemset(u) + 3][1],
                           Head(Segments(u)[MatchProblemset(u) + 4]), HasGymSegment(u))
    ELSE IF MatchGym(u) # 0
    THEN ProblemIdentifier(Segments(u)[MatchGym(u) + 2][1],
                           Head(Segments(u)[MatchGym(u) + 4]), HasGymSegment(u))
    ELSE Raised("URLParseError")

\* domain/parsers/url_parser.py URLParser.parse
\* re.search on a non-str raises TypeError; the identifier never is a gym one.
parse_domain(u) ==
    IF ~u.is_str
    THEN Raised("TypeError")
    ELSE IF MatchProblemset(u) # 0
    THEN ProblemIdentifier_init(Segments(u)[MatchProblemset(u) + 3][1],
                                Head(Segments(u)[MatchProblemset(u) + 4]), FALSE)
    ELSE Raised("URLParseError")

\* codeforces_editorial/parsers/url_parser.py URLParser.build_problem_url
build_problem_url_sync(id) ==
    IF id.is_gym
    THEN Url("https", Seg("codeforces.com"),
             <<Seg("gym"), Seg(id.contest_id), Seg("problem"), Seg(id.problem_id)>>)
    ELSE Url("https", Seg("codeforces.com"),
             <<Seg("contest"), Seg(id.contest_id), Seg("problem"), Seg(id.problem_id)>>)

\* domain/parsers/url_parser.py URLParser.build_problem_url
build_problem_url_domain(id) ==
    Url("https", Seg("codeforces.com"),
        <<Seg("problemset"), Seg("problem"), Seg(str_(id.contest_id)), Seg(id.problem_id)>>)

\* URLParser.parse as imported by each get_editorial
URLParser_parse(v, u) == IF v = "sync" THEN parse_sync(u) ELSE parse_domain(u)

\* The key a get_editorial uses for an identifier:
\* identifier.cache_key (async, service) or EditorialCache._get_key (sync)
KeyOf(v, id) == IF v = "sync" THEN _get_key(id) ELSE cache_key(id)

Identifiers(v) == {URLParser_parse(v, u) : u \in {w \in UrlInputs : ~IsRaised(URLParser_parse(v, w))}}

Keys(v) == {KeyOf(v, id) : id \in Identifiers(v)}

----------------------------------------------------------------------------
(* The cache store (diskcache.Cache / Redis): key -> item, with the expiry  *)
(* time the store itself applies.                                           *)

NoItem == [absent |-> TRUE]

Item(data, expire_time) == [absent |-> FALSE, data |-> data, expire_time |-> expire_time]

\* An entry written in the format of domain/models/cached_editorial.py
\* ({"editorial": <text>}), which from_dict of domain/models.py cannot read.
ForeignData == [editorial |-> "text"]

StoreGet_forgets(st, k, t) == NoItem

\* store.get(key): an item past its expire time is gone
StoreGet(st, k, t) ==
    IF st[k].absent \/ st[k].expire_time <= t THEN NoItem ELSE st[k]

StoreSet_first_write_wins(st, k, data, t, ttl_hours) ==
    IF st[k].absent
    THEN [st EXCEPT ![k] = Item(data, t + ttl_hours * SECONDS_PER_HOUR)]
    ELSE st

\* store.set(key, data) with the store's TTL (settings.cache_ttl_hours * 3600)
StoreSet(st, k, data, t, ttl_hours) ==
    [st EXCEPT ![k] = Item(data, t + ttl_hours * SECONDS_PER_HOUR)]

\* store.delete(key)
StoreDelete(st, k) == [st EXCEPT ![k] = NoItem]

----------------------------------------------------------------------------
(* get_editorial *)

Unbound == [unbound |-> TRUE]

IsBound(x) == "unbound" \notin DOMAIN x

\* The local variables of one get_editorial call, and four records of what
\* happened in it: lookup (outcome of the cache lookup), write (outcome of the
\* cache write), failed_at (the stage whose collaborator raised), store_at_call
\* (the content of the cache store when the call started).
InitLocal ==
    [identifier |-> Unbound, cached |-> Unbound, problem_data |-> Unbound,
     tutorial_url |-> "", tutorial_data |-> Unbound, editorial |-> Unbound,
     lookup |-> "none", write |-> "none", failed_at |-> "none",
     store_at_call |-> <<>>]

NoResult == [status |-> "none"]

NoArgs == [url |-> NotAStr, use_cache |-> FALSE, cache_client |-> FALSE]

Returned(ed, pd) == [status |-> "ok", editorial |-> ed, problem_data |-> pd]

\* exc: the exception the caller gets; raised: the exception the stage raised
Failed(exc, raised) == [status |-> "error", exc |-> exc, raised |-> raised]

Titles == {"Two Sum"}

TutorialUrls == {"https://codeforces.com/blog/entry/1"}

SolutionTexts == {"", "solution"}

TutorialParser_reraises_domain(e) ==
    IF IsDomainError(e) THEN e ELSE Exc("ParsingError", e.kind)

\* TutorialParser.parse: except Exception as e: raise ParsingError(...) from e
TutorialParser_except(e) == Exc("ParsingError", e.kind)

\* ProblemPageParser.parse_problem_page:
\* except Exception as e: raise ParsingError(...) from e
ProblemPageParser_except(e) == Exc("ParsingError", e.kind)

\* What the collaborators of a stage raise
StageErrors(stage) ==
    CASE stage = "parse_problem_page" -> {"NotFoundError", "NetworkError", "ParsingError", "RuntimeError"}
      [] stage = "find_tutorial" -> {"EditorialNotFoundError", "RuntimeError"}
      [] stage = "parse_tutorial" -> {"ParsingError", "NotFoundError", "RuntimeError"}
      [] stage = "extract" -> {"ExtractionError", "RuntimeError"}

\* The exception that leaves a stage when e was raised inside it.  The parsers
\* of the sync implementation (codeforces_editorial/parsers) wrap every
\* exception of their fetch and of their parsing into ParsingError; the
\* parsers of the other two implementations are not part of the sources and
\* follow the specification: the failure of the fetch leaves the stage as it
\* was raised.
StageFailure(v, stage, e) ==
    IF v = "sync" /\ stage = "parse_problem_page" THEN ProblemPageParser_except(e)
    ELSE IF v = "sync" /\ stage = "parse_tutorial" THEN TutorialParser_except(e)
    ELSE e

CacheCheckOnFlagAlone(a) == a.use_cache

\* "if self.use_cache and self.cache_client:" before the lookup
\* (async: self.use_cache = use_cache and cache_client is not None)
CacheCheckEnabled(a) == a.use_cache /\ a.cache_client

CacheWriteNever(a) == FALSE

\* "if self.use_cache and self.cache_client:" after the extraction
CacheWriteEnabled(a) == a.use_cache /\ a.cache_client

HitNeverReturns(p) == FALSE

\* "if cached: ... return cached.editorial, problem_data"
HitReturns(p) == p = "problem_hit"

OnErrorReadRaises(v, stage) ==
    IF stage \in {"cache_delete"} THEN "swallow"
    ELSE IF stage = "cache_set" /\ v # "sync" THEN "swallow"
    ELSE "raise"

OnErrorExtractSwallowed(v, stage) ==
    IF stage \in {"cache_get", "cache_delete", "extract"} THEN "swallow"
    ELSE IF stage = "cache_set" /\ v # "sync" THEN "swallow"
    ELSE "raise"

\* What becomes of an exception raised in a stage: "swallow" when a try/except
\* around the stage catches it, "raise" when it leaves the try body of
\* get_editorial.  _get_from_cache, _save_to_cache (async, service),
\* EditorialCache.get and EditorialCache.delete swallow; EditorialCache.set
\* (sync) re-raises as CacheError; no other stage has a try/except of its own.
OnError(v, stage) ==
    IF stage \in {"cache_get", "cache_delete"} THEN "swallow"
    ELSE IF stage = "cache_set" /\ v # "sync" THEN "swallow"
    ELSE "raise"

HandlerWrapsAlways(v, loc, e) == Exc("CodeforcesEditorialError", e.kind)

\* The except clauses of get_editorial: a CodeforcesEditorialError is re-raised,
\* anything else is wrapped ("raise CodeforcesEditorialError(...) from e").
\* The async handler first logs identifier.cache_key: with identifier not yet
\* bound that read raises UnboundLocalError, which leaves get_editorial.
Handler(v, loc, e) ==
    IF IsDomainError(e) THEN e
    ELSE IF v = "async" /\ ~IsBound(loc.identifier) THEN Exc("UnboundLocalError", NoCause)
    ELSE Exc("CodeforcesEditorialError", e.kind)

\* A stage raised e: the exception leaves get_editorial through its handler
Raise(r, stage, e) ==
    /\ result' = [result EXCEPT ![r] = Failed(Handler(variant, local[r], e), e)]
    /\ local' = [local EXCEPT ![r].failed_at = stage,
                              ![r].store_at_call = IF stage = "resolve" THEN store ELSE @]
    /\ pc' = [pc EXCEPT ![r] = "done"]

\* get_editorial(url) up to and including URLParser.parse(url), for a url
\* of the set urls
ResolveFrom(r, urls) ==
    /\ pc[r] = "idle"
    /\ \E u \in urls, uc \in BOOLEAN, cc \in BOOLEAN :
        LET a  == [url |-> u, use_cache |-> uc, cache_client |-> cc]
            id == URLParser_parse(variant, u)
        IN  \* sync: self.cache = EditorialCache(cache_dir) if use_cache else None
            /\ variant = "sync" => cc = uc
            /\ args' = [args EXCEPT ![r] = a]
            /\ IF IsRaised(id)
               THEN Raise(r, "resolve", Exc(id.raised, NoCause))
               ELSE /\ local' = [local EXCEPT ![r].identifier = id,
                                              ![r].store_at_call = store]
                    /\ pc' = [pc EXCEPT ![r] =
                                IF CacheCheckEnabled(a) THEN "cache_check" ELSE "problem"]
                    /\ UNCHANGED result
    /\ UNCHANGED <<variant, cache_ttl_hours, now, ticks, store, calls, rt, http, parser, extract, urlcase, finder, clients, keycase>>

Resolve(r) == ResolveFrom(r, UrlInputs)

\* The lookup ended without an entry: get_editorial goes on with the pipeline
Miss(r, how) ==
    /\ local' = [local EXCEPT ![r].lookup = how]
    /\ pc' = [pc EXCEPT ![r] = "problem"]
    /\ UNCHANGED result

\* The store or from_dict raised e during the lookup
LookupFailed(r, e) ==
    IF OnError(variant, "cache_get") = "swallow"
    THEN Miss(r, "failed")
    ELSE Raise(r, "cache_get", e)

\* _get_from_cache (async, service): cache_client.get, then from_dict;
\* every exception is swallowed and gives None.
GetFromCache(r) ==
    /\ pc[r] = "cache_check"
    /\ variant # "sync"
    /\ calls' = [calls EXCEPT ![r] = Append(@, "cache_get")]
    /\ \E get_ok \in BOOLEAN :
        LET it == StoreGet(store, KeyOf(variant, local[r].identifier), now)
            c  == from_dict("models", it.data)
        IN  IF ~get_ok THEN LookupFailed(r, Exc("ConnectionError", NoCause))
            ELSE IF it.absent THEN Miss(r, "miss")
            ELSE IF IsRaised(c) THEN LookupFailed(r, Exc(c.raised, NoCause))
            ELSE /\ local' = [local EXCEPT ![r].lookup = "hit", ![r].cached = c]
                 /\ pc' = [pc EXCEPT ![r] = "problem_hit"]
                 /\ UNCHANGED result
    /\ UNCHANGED <<variant, cache_ttl_hours, now, ticks, store, args, rt, http, parser, extract, urlcase, finder, clients, keycase>>

\* EditorialCache.get (sync) up to the expiry check: cache.get, json.loads and
\* from_dict, is_expired; every exception is swallowed and gives None.
CacheGet(r) ==
    /\ pc[r] = "cache_check"
    /\ variant = "sync"
    /\ calls' = [calls EXCEPT ![r] = Append(@, "cache_get")]
    /\ \E get_ok \in BOOLEAN :
        LET it == StoreGet(store, KeyOf(variant, local[r].identifier), now)
            c  == from_dict("models", it.data)
        IN  IF ~get_ok THEN LookupFailed(r, Exc("ConnectionError", NoCause))
            ELSE IF it.absent THEN Miss(r, "miss")
            ELSE IF IsRaised(c) THEN LookupFailed(r, Exc(c.raised, NoCause))
            ELSE IF is_expired(c, DateTime(now, 0))
            THEN /\ local' = [local EXCEPT ![r].lookup = "expired"]
                 /\ pc' = [pc EXCEPT ![r] = "cache_evict"]
                 /\ UNCHANGED result
            ELSE /\ local' = [local EXCEPT ![r].lookup = "hit", ![r].cached = c]
                 /\ pc' = [pc EXCEPT ![r] = "problem_hit"]
                 /\ UNCHANGED result
    /\ UNCHANGED <<variant, cache_ttl_hours, now, ticks, store, args, rt, http, parser, extract, urlcase, finder, clients, keycase>>

\* EditorialCache.get (sync), the expired branch: self.delete(identifier),
\* whose own failure is swallowed, then return None.
CacheEvict(r) ==
    /\ pc[r] = "cache_evict"
    /\ calls' = [calls EXCEPT ![r] = Append(@, "cache_delete")]
    /\ \E delete_ok \in BOOLEAN :
        store' = IF delete_ok
                 THEN StoreDelete(store, KeyOf(variant, local[r].identifier))
                 ELSE store
    /\ pc' = [pc EXCEPT ![r] = "problem"]
    /\ UNCHANGED <<variant, cache_ttl_hours, now, ticks, args, local, result, rt, http, parser, extract, urlcase, finder, clients, keycase>>

\* problem_parser.parse_problem_page(identifier), on the hit path
\* ("return cached.editorial, problem_data") and on the miss path
ParseProblemPage(r) ==
    /\ pc[r] \in {"problem", "problem_hit"}
    /\ calls' = [calls EXCEPT ![r] = Append(@, "parse_problem_page")]
    /\ \/ \E t \in Titles :
            LET pd == [identifier |-> local[r].identifier, title |-> t] IN
            /\ local' = [local EXCEPT ![r].problem_data = pd]
            /\ IF HitReturns(pc[r])
               THEN /\ result' = [result EXCEPT ![r] = Returned(local[r].cached.editorial, pd)]
                    /\ pc' = [pc EXCEPT ![r] = "done"]
               ELSE /\ pc' = [pc EXCEPT ![r] = "find"]
                    /\ UNCHANGED result
       \/ \E k \in StageErrors("parse_problem_page") :
            Raise(r, "parse_problem_page",
                  StageFailure(variant, "parse_problem_page", Exc(k, NoCause)))
    /\ UNCHANGED <<variant, cache_ttl_hours, now, ticks, store, args, rt, http, parser, extract, urlcase, finder, clients, keycase>>

\* tutorial_finder.find_tutorial(identifier)
FindTutorial(r) ==
    /\ pc[r] = "find"
    /\ calls' = [calls EXCEPT ![r] = Append(@, "find_tutorial")]
    /\ \/ \E u \in TutorialUrls :
            /\ local' = [local EXCEPT ![r].tutorial_url = u]
            /\ pc' = [pc EXCEPT ![r] = "tutorial"]
            /\ UNCHANGED result
       \/ \E k \in StageErrors("find_tutorial") :
            Raise(r, "find_tutorial", Exc(k, NoCause))
    /\ UNCHANGED <<variant, cache_ttl_hours, now, ticks, store, args, rt, http, parser, extract, urlcase, finder, clients, keycase>>

\* tutorial_parser.parse(tutorial_url)
ParseTutorial(r) ==
    /\ pc[r] = "tutorial"
    /\ calls' = [calls EXCEPT ![r] = Append(@, "parse_tutorial")]
    /\ \/ \E f \in {"html", PlainStrFormat} :
            /\ local' = [local EXCEPT ![r].tutorial_data =
                            [url |-> local[r].tutorial_url, format |-> f]]
            /\ pc' = [pc EXCEPT ![r] = "extract"]
            /\ UNCHANGED result
       \/ \E k \in StageErrors("parse_tutorial") :
            Raise(r, "parse_tutorial",
                  StageFailure(variant, "parse_tutorial", Exc(k, NoCause)))
    /\ UNCHANGED <<variant, cache_ttl_hours, now, ticks, store, args, rt, http, parser, extract, urlcase, finder, clients, keycase>>

\* After the extraction: on to the cache write, or "return editorial, problem_data"
AfterExtract(r, ed, failed_at) ==
    /\ local' = [local EXCEPT ![r].editorial = ed, ![r].failed_at = failed_at]
    /\ IF CacheWriteEnabled(args[r])
       THEN /\ pc' = [pc EXCEPT ![r] = "cache_write"]
            /\ UNCHANGED result
       ELSE /\ result' = [result EXCEPT ![r] = Returned(ed, local[r].problem_data)]
            /\ pc' = [pc EXCEPT ![r] = "done"]

\* editorial_extractor.extract(tutorial_data, identifier, problem_data.title)
Extract(r) ==
    /\ pc[r] = "extract"
    /\ calls' = [calls EXCEPT ![r] = Append(@, "extract")]
    /\ \/ \E text \in SolutionTexts :
            AfterExtract(r, Editorial(full_id(local[r].identifier), text,
                                      local[r].tutorial_data.url, DateTime(now, 0)),
                         "none")
       \/ \E k \in StageErrors("extract") :
            IF OnError(variant, "extract") = "raise"
            THEN Raise(r, "extract", Exc(k, NoCause))
            ELSE AfterExtract(r, Editorial(full_id(local[r].identifier), "",
                                           local[r].tutorial_data.url, DateTime(now, 0)),
                              "extract")
    /\ UNCHANGED <<variant, cache_ttl_hours, now, ticks, store, args, rt, http, parser, extract, urlcase, finder, clients, keycase>>

\* The entry get_editorial builds after the extraction (cached_at and
\* ttl_hours take their defaults: datetime.now() and 168)
NewCachedEditorial(loc, t) ==
    CachedEditorial(loc.identifier, loc.editorial, loc.tutorial_url,
                    loc.tutorial_data.format, DateTime(t, 0), DEFAULT_TTL_HOURS)

\* The cache write failed with e (to_dict, json.dumps or the store raised)
WriteFailed(r, e) ==
    IF OnError(variant, "cache_set") = "swallow"
    THEN /\ result' = [result EXCEPT ![r] =
                          Returned(local[r].editorial, local[r].problem_data)]
         /\ local' = [local EXCEPT ![r].write = "failed"]
         /\ pc' = [pc EXCEPT ![r] = "done"]
    ELSE /\ result' = [result EXCEPT ![r] =
                          Failed(Handler(variant, local[r], Exc("CacheError", e)),
                                 Exc("CacheError", e))]
         /\ local' = [local EXCEPT ![r].write = "failed", ![r].failed_at = "cache_set"]
         /\ pc' = [pc EXCEPT ![r] = "done"]

\* _save_to_cache (async, service) / cache.set(cached_editorial) (sync),
\* then "return editorial, problem_data"
SaveToCache(r) ==
    /\ pc[r] = "cache_write"
    /\ LET k == KeyOf(variant, local[r].identifier)
           d == to_dict("models", NewCachedEditorial(local[r], now))
       IN  IF IsRaised(d)
           THEN /\ UNCHANGED <<calls, store>>
                /\ WriteFailed(r, d.raised)
           ELSE /\ calls' = [calls EXCEPT ![r] = Append(@, "cache_set")]
                /\ \/ /\ store' = StoreSet(store, k, d, now, cache_ttl_hours)
                      /\ result' = [result EXCEPT ![r] =
                                       Returned(local[r].editorial, local[r].problem_data)]
                      /\ local' = [local EXCEPT ![r].write = "ok"]
                      /\ pc' = [pc EXCEPT ![r] = "done"]
                   \/ /\ UNCHANGED store
                      /\ WriteFailed(r, "ConnectionError")
    /\ UNCHANGED <<variant, cache_ttl_hours, now, ticks, args, rt, http, parser, extract, urlcase, finder, clients, keycase>>

\* The caller has the outcome; the next call of get_editorial can start
Finish(r) ==
    /\ pc[r] = "done"
    /\ pc' = [pc EXCEPT ![r] = "idle"]
    /\ args' = [args EXCEPT ![r] = NoArgs]
    /\ local' = [local EXCEPT ![r] = InitLocal]
    /\ calls' = [calls EXCEPT ![r] = <<>>]
    /\ result' = [result EXCEPT ![r] = NoResult]
    /\ UNCHANGED <<variant, cache_ttl_hours, now, ticks, store, rt, http, parser, extract, urlcase, finder, clients, keycase>>

\* Wall-clock time passes (between calls: a call is short against the steps
\* of the clock)
Tick ==
    /\ ticks < MaxTicks
    /\ \A r \in Runs : pc[r] = "idle"
    /\ \E d \in TickSteps : now' = now + d
    /\ ticks' = ticks + 1
    /\ UNCHANGED <<variant, cache_ttl_hours, store, pc, args, local, calls, result, rt, http, parser, extract, urlcase, finder, clients, keycase>>

NoRoundTrip == [step |-> "off"]

\* No HTTP client, parser, extractor or URL parser call is under test
NoHttp == [client |-> "none", status |-> "idle"]

NoParser == [kind |-> "none", pc |-> "off"]

NoExtract == [step |-> "off"]

NoUrlCase == [step |-> "off"]

NoFinder == [pc |-> "off"]

NoClients == [pc |-> "off"]

NoKeyCase == [step |-> "off"]

Init ==
    /\ variant \in Variants
    /\ cache_ttl_hours \in {DEFAULT_TTL_HOURS, 2 * DEFAULT_TTL_HOURS}
    /\ now = 0
    /\ finder = NoFinder
    /\ clients = NoClients
    /\ keycase = NoKeyCase
    /\ ticks = 0
    /\ \E foreign \in SUBSET Keys(variant) :
        store = [k \in Keys(variant) |->
                    IF k \in foreign
                    THEN Item(ForeignData, cache_ttl_hours * SECONDS_PER_HOUR)
                    ELSE NoItem]
    /\ pc = [r \in Runs |-> "idle"]
    /\ args = [r \in Runs |-> NoArgs]
    /\ local = [r \in Runs |-> InitLocal]
    /\ calls = [r \in Runs |-> <<>>]
    /\ result = [r \in Runs |-> NoResult]
    /\ rt = NoRoundTrip
    /\ http = NoHttp
    /\ parser = NoParser
    /\ extract = NoExtract
    /\ urlcase = NoUrlCase

Next ==
    \/ \E r \in Sequential : Resolve(r)
    \/ \E r \in Sequential : GetFromCache(r)
    \/ \E r \in Sequential : CacheGet(r)
    \/ \E r \in Sequential : CacheEvict(r)
    \/ \E r \in Sequential : ParseProblemPage(r)
    \/ \E r \in Sequential : FindTutorial(r)
    \/ \E r \in Sequential : ParseTutorial(r)
    \/ \E r \in Sequential : Extract(r)
    \/ \E r \in Sequential : SaveToCache(r)
    \/ \E r \in Sequential : Finish(r)
    \/ Tick

Spec == Init /\ [][Next]_vars

----------------------------------------------------------------------------
(* Serialization round trip: from_dict(to_dict(c)) for each CachedEditorial *)
(* class, on entries drawn from bounded sets.                               *)

DateTimeInputs == {DateTime(0, 0), DateTime(HalfHour, 250000)}

EditorialInputs ==
    {Editorial(<<"1234", p>>, text, src, at) :
        p \in {"A", "B1"}, text \in SolutionTexts,
        src \in {"None"} \cup TutorialUrls, at \in DateTimeInputs}

\* The CachedEditorial objects of each class: the one of domain/models.py has
\* six fields, the other two hold the editorial alone.
CachedEditorialInputs(fmt) ==
    IF fmt = "models"
    THEN {CachedEditorial(ProblemIdentifier("1234", e.problem_id[2], g), e, u, f, at, ttl) :
            g \in BOOLEAN, e \in EditorialInputs, u \in TutorialUrls,
            f \in {"html", "pdf"}, at \in DateTimeInputs, ttl \in {1, DEFAULT_TTL_HOURS}}
    ELSE {[editorial |-> e] : e \in EditorialInputs}

InitRoundTrip ==
    /\ variant = "sync"
    /\ cache_ttl_hours = DEFAULT_TTL_HOURS
    /\ now = 0
    /\ finder = NoFinder
    /\ clients = NoClients
    /\ keycase = NoKeyCase
    /\ ticks = 0
    /\ store = [k \in Keys(variant) |-> NoItem]
    /\ pc = [r \in Runs |-> "idle"]
    /\ args = [r \in Runs |-> NoArgs]
    /\ local = [r \in Runs |-> InitLocal]
    /\ calls = [r \in Runs |-> <<>>]
    /\ result = [r \in Runs |-> NoResult]
    /\ http = NoHttp
    /\ parser = NoParser
    /\ extract = NoExtract
    /\ urlcase = NoUrlCase
    /\ \E fmt \in Formats : \E c \in CachedEditorialInputs(fmt) :
        rt = [step |-> "fresh", fmt |-> fmt, c |-> c]

\* data = c.to_dict()
Serialize ==
    /\ rt.step = "fresh"
    /\ rt' = [step |-> "serialized", fmt |-> rt.fmt, c |-> rt.c, data |-> to_dict(rt.fmt, rt.c)]
    /\ UNCHANGED <<variant, cache_ttl_hours, now, ticks, store, pc, args, local, calls, result, http, parser, extract, urlcase, finder, clients, keycase>>

\* back = CachedEditorial.from_dict(data); an exception of to_dict is the
\* outcome of the whole expression
Deserialize ==
    /\ rt.step = "serialized"
    /\ rt' = [step |-> "done", fmt |-> rt.fmt, c |-> rt.c, data |-> rt.data,
              back |-> IF IsRaised(rt.data) THEN rt.data ELSE from_dict(rt.fmt, rt.data)]
    /\ UNCHANGED <<variant, cache_ttl_hours, now, ticks, store, pc, args, local, calls, result, http, parser, extract, urlcase, finder, clients, keycase>>

NextRoundTrip == Serialize \/ Deserialize

SpecRoundTrip == InitRoundTrip /\ [][NextRoundTrip]_vars

----------------------------------------------------------------------------
(* HTTP clients and the parsers that fetch through them (specification      *)
(* SpecFetch).                                                              *)
(*   "codeforces_editorial"  codeforces_editorial/fetchers/http_client.py   *)
(*   "domain"                domain/fetchers/http_client.py                 *)
(*   "infrastructure"        infrastructure/http_client.py AsyncHTTPClient  *)
(* The kind NotFoundError stands for the class ProblemNotFoundError.        *)

HttpClients == {"codeforces_editorial", "domain", "infrastructure"}

\* The two clients built on httpx
HttpxClients == {"codeforces_editorial", "domain"}

HttpOps == {"get", "get_text", "get_bytes", "get_content_type"}

\* stop=stop_after_attempt(3)
STOP_AFTER_ATTEMPT == 3

\* What self.client.get(url) does in one attempt: a response arrives ...
Response(status_code) == [arrived |-> TRUE, status_code |-> status_code]

\* ... or the transport raises
TransportRaises(kind) == [arrived |-> FALSE, kind |-> kind]

\* The exceptions tenacity is told to retry on
\* (for AsyncHTTPClient the names stand for the timeout and connection
\* errors of curl_cffi)
RetriedTransportErrors == {"httpx.TimeoutException", "httpx.NetworkError"}

TransportOutcomes ==
    {Response(200), Response(404), Response(500)}
        \cup {TransportRaises(k) : k \in RetriedTransportErrors \cup {"ValueError"}}

\* One execution of the body of get: the response it returns, or the
\* exception that leaves its try statement.
get_once(client, o) ==
    IF client \in HttpxClients
    THEN \* response.raise_for_status(); except httpx.HTTPStatusError;
         \* except (httpx.TimeoutException, httpx.NetworkError): raise;
         \* except Exception
         IF ~o.arrived
         THEN IF o.kind \in RetriedTransportErrors
              THEN Raised(Exc(o.kind, NoCause))
              ELSE Raised(Exc("NetworkError", o.kind))
         ELSE IF o.status_code = 404
         THEN Raised(Exc("NotFoundError", "httpx.HTTPStatusError"))
         ELSE IF o.status_code >= 400
         THEN Raised(Exc("NetworkError", "httpx.HTTPStatusError"))
         ELSE o
    ELSE \* if response.status_code == 404; if response.status_code >= 400;
         \* except ProblemNotFoundError: raise; except NetworkError: raise;
         \* except Exception
         IF ~o.arrived
         THEN Raised(Exc("NetworkError", o.kind))
         ELSE IF o.status_code = 404
         THEN Raised(Exc("NotFoundError", NoCause))
         ELSE IF o.status_code >= 400
         THEN Raised(Exc("NetworkError", NoCause))
         ELSE o

\* The retry= argument of @retry: the httpx clients retry on
\* retry_if_exception_type((httpx.TimeoutException, httpx.NetworkError));
\* AsyncHTTPClient.get gives no retry= argument, and tenacity then retries on
\* every exception.
ShouldRetry(client, e) ==
    IF client \in HttpxClients THEN e.kind \in RetriedTransportErrors ELSE TRUE

\* get_text, get_bytes, get_content_type: response = self.get(url), then a
\* read of the response
ReadResponse(op, out) ==
    IF IsRaised(out) THEN out ELSE [op |-> op, status_code |-> out.status_code]

HttpCall(client, op) ==
    [client |-> client, status |-> "running", op |-> op, attempts |-> <<>>,
     result |-> NoResult]

ParserKinds == {"direct", "TutorialParser", "ProblemPageParser"}

\* The shapes of a tutorial URL: under a blog path, under a contest path,
\* a problemset page, anything else; "none" for the other callers
UrlShapes == {"blog", "contest", "problemset", "other"}

\* A request of a parser to its HTTP client
Fetch(op) == [op |-> op, wait_time |-> 0]

ParserStart(kind) ==
    [kind |-> kind, pc |-> "start", inner |-> NoResult, result |-> NoResult,
     url |-> "none", content_type |-> "none", fetches |-> <<>>]

\* The values of the content-type header
ContentTypes == {"application/pdf", "text/html; charset=utf-8", ""}

\* "pdf" in content_type
IsPdf(content_type) == content_type = "application/pdf"

\* What the code after a fetch raises: fitz.open / page.get_text on the PDF
\* branch, BeautifulSoup and the _extract_* helpers on the HTML branches
DecodeErrors == {"RuntimeError", "AttributeError"}

Parser_except(kind, e) ==
    IF kind = "TutorialParser" THEN TutorialParser_except(e) ELSE ProblemPageParser_except(e)

\* One attempt of the get call in flight, with tenacity's decision after it:
\* return the response, retry, or (stop reached, reraise=True) raise the
\* exception of the last attempt.
HttpAttempt ==
    /\ http.status = "running"
    /\ \E o \in TransportOutcomes :
        LET out == get_once(http.client, o)
            n   == Len(http.attempts) + 1
        IN  http' = [http EXCEPT
                        !.attempts = Append(@, o),
                        !.result = out,
                        !.status = IF /\ IsRaised(out)
                                      /\ ShouldRetry(http.client, out.raised)
                                      /\ n < STOP_AFTER_ATTEMPT
                                   THEN "running" ELSE "done"]
    /\ UNCHANGED <<pipeline, rt, parser, extract, urlcase, finder, clients, keycase>>

\* A caller invokes one of get, get_text, get_bytes, get_content_type
DirectCall ==
    /\ parser.kind = "direct" /\ parser.pc = "start"
    /\ \E op \in HttpOps : http' = HttpCall(http.client, op)
    /\ parser' = [parser EXCEPT !.pc = "fetch"]
    /\ UNCHANGED <<pipeline, rt, extract, urlcase, finder, clients, keycase>>

\* ... and gets its value or its exception
DirectReturn ==
    /\ parser.kind = "direct" /\ parser.pc = "fetch"
    /\ http.status = "done"
    /\ parser' = [parser EXCEPT !.pc = "done",
                                !.result = ReadResponse(http.op, http.result)]
    /\ UNCHANGED <<pipeline, rt, http, extract, urlcase, finder, clients, keycase>>

\* The except clause of a parser: e left its try body
ParserRaise(e) ==
    parser' = [parser EXCEPT !.pc = "done", !.inner = e,
                             !.result = Raised(Parser_except(parser.kind, e))]

\* TutorialParser.parse: content_type = self.http.get_content_type(url)
TutorialParser_content_type ==
    /\ parser.kind = "TutorialParser" /\ parser.pc = "start"
    /\ http' = HttpCall(http.client, "get_content_type")
    /\ parser' = [parser EXCEPT !.pc = "content_type",
                                !.fetches = @ \o <<Fetch("get_content_type")>>]
    /\ UNCHANGED <<pipeline, rt, extract, urlcase, finder, clients, keycase>>

\* The request that fetches the body: _parse_pdf reads the bytes, _parse_html
\* the text, whatever the URL
body_fetch(content_type) == IF IsPdf(content_type) THEN "get_bytes" ELSE "get_text"

\* TutorialParser.parse: if "pdf" in content_type: self._parse_pdf(url)
\* else: self._parse_html(url), up to their fetch
TutorialParser_route ==
    /\ parser.kind = "TutorialParser" /\ parser.pc = "content_type"
    /\ http.status = "done"
    /\ IF IsRaised(http.result)
       THEN ParserRaise(http.result.raised) /\ UNCHANGED http
       ELSE \E ct \in ContentTypes :
            /\ parser' = [parser EXCEPT !.pc = IF IsPdf(ct) THEN "pdf" ELSE "html",
                                        !.content_type = ct,
                                        !.fetches = @ \o <<Fetch(body_fetch(ct))>>]
            /\ http' = HttpCall(http.client, body_fetch(ct))
    /\ UNCHANGED <<pipeline, rt, extract, urlcase, finder, clients, keycase>>

\* _parse_pdf / _parse_html after the fetch: decode the body and build the
\* TutorialData
TutorialParser_decode ==
    /\ parser.kind = "TutorialParser" /\ parser.pc \in {"pdf", "html"}
    /\ http.status = "done"
    /\ IF IsRaised(http.result)
       THEN ParserRaise(http.result.raised)
       ELSE \/ parser' = [parser EXCEPT !.pc = "done",
                             !.result = [url |-> "tutorial", format |-> parser.pc]]
            \/ \E k \in DecodeErrors : ParserRaise(Exc(k, NoCause))
    /\ UNCHANGED <<pipeline, rt, http, extract, urlcase, finder, clients, keycase>>

\* ProblemPageParser.parse_problem_page: html = self.http_client.get_text(url)
ProblemPageParser_fetch ==
    /\ parser.kind = "ProblemPageParser" /\ parser.pc = "start"
    /\ http' = HttpCall(http.client, "get_text")
    /\ parser' = [parser EXCEPT !.pc = "html"]
    /\ UNCHANGED <<pipeline, rt, extract, urlcase, finder, clients, keycase>>

\* ProblemPageParser.parse_problem_page after the fetch: BeautifulSoup, the
\* _extract_* helpers, ProblemData(...)
ProblemPageParser_parse ==
    /\ parser.kind = "ProblemPageParser" /\ parser.pc = "html"
    /\ http.status = "done"
    /\ IF IsRaised(http.result)
       THEN ParserRaise(http.result.raised)
       ELSE \/ \E t \in Titles :
                parser' = [parser EXCEPT !.pc = "done", !.result = [title |-> t]]
            \/ \E k \in DecodeErrors : ParserRaise(Exc(k, NoCause))
    /\ UNCHANGED <<pipeline, rt, http, extract, urlcase, finder, clients, keycase>>

\* The parsers under codeforces_editorial/parsers use the HTTPClient of
\* codeforces_editorial/fetchers; a direct caller uses any of the clients.
InitFetch ==
    /\ variant = "sync"
    /\ cache_ttl_hours = DEFAULT_TTL_HOURS
    /\ now = 0
    /\ finder = NoFinder
    /\ clients = NoClients
    /\ keycase = NoKeyCase
    /\ ticks = 0
    /\ store = [k \in Keys(variant) |-> NoItem]
    /\ pc = [r \in Runs |-> "idle"]
    /\ args = [r \in Runs |-> NoArgs]
    /\ local = [r \in Runs |-> InitLocal]
    /\ calls = [r \in Runs |-> <<>>]
    /\ result = [r \in Runs |-> NoResult]
    /\ rt = NoRoundTrip
    /\ extract = NoExtract
    /\ urlcase = NoUrlCase
    /\ \E kind \in ParserKinds, client \in HttpClients :
        /\ kind # "direct" => client = "codeforces_editorial"
        /\ \E u \in UrlShapes \cup {"none"} :
              /\ u = "none" <=> kind # "TutorialParser"
              /\ parser = [ParserStart(kind) EXCEPT !.url = u]
        /\ http = [client |-> client, status |-> "idle"]

NextFetch ==
    \/ HttpAttempt
    \/ DirectCall
    \/ DirectReturn
    \/ TutorialParser_content_type
    \/ TutorialParser_route
    \/ TutorialParser_decode
    \/ ProblemPageParser_fetch
    \/ ProblemPageParser_parse

SpecFetch == InitFetch /\ [][NextFetch]_vars

----------------------------------------------------------------------------
(* EditorialExtractor.extract (specification SpecExtract).  The extractor   *)
(* (domain/extractors/editorial_extractor.py) is not part of the sources:   *)
(* it is modelled from section 4.5 of the specification and from the cases  *)
(* of tests/test_editorial_extractor.py and tests/extractor.                *)
(*                                                                          *)
(* A text is the sequence of its lines (the pieces between "\n"), a line    *)
(* the sequence of its tokens; the literals "NOT_FOUND", "---" and the      *)
(* three backticks of a fence are tokens of their own wherever they occur,  *)
(* WS is a run of blanks.                                                   *)
(* The empty text is <<>>.                                                  *)

MaxNotFoundLines == 3

MaxFrontMatterLines == 6

MaxFenceLines == 6

WS == " "

SENTINEL == "NOT_FOUND"

DELIMITER == <<"---">>

\* Three backticks
FENCE == "FENCE"

\* The language of a fence without a tag
DEFAULT_LANGUAGE == "text"

\* A line of blanks only (the empty line included)
IsBlank(l) == \A i \in 1..Len(l) : l[i] = WS

RECURSIVE lstrip_line(_)
lstrip_line(l) == IF l # <<>> /\ Head(l) = WS THEN lstrip_line(Tail(l)) ELSE l

RECURSIVE rstrip_line(_)
rstrip_line(l) ==
    IF l # <<>> /\ l[Len(l)] = WS THEN rstrip_line(SubSeq(l, 1, Len(l) - 1)) ELSE l

RECURSIVE lstrip(_)
lstrip(t) ==
    IF t = <<>> THEN <<>>
    ELSE IF IsBlank(Head(t)) THEN lstrip(Tail(t))
    ELSE <<lstrip_line(Head(t))>> \o Tail(t)

RECURSIVE rstrip(_)
rstrip(t) ==
    IF t = <<>> THEN <<>>
    ELSE IF IsBlank(t[Len(t)]) THEN rstrip(SubSeq(t, 1, Len(t) - 1))
    ELSE SubSeq(t, 1, Len(t) - 1) \o <<rstrip_line(t[Len(t)])>>

\* str.strip(): leading and trailing whitespace (blanks and newlines) removed
strip(t) == rstrip(lstrip(t))

starts_with_any_case(s) ==
    s # <<>> /\ Head(s) # <<>> /\ Head(Head(s)) \in {SENTINEL, "not_found", "Not_Found"}

\* Step 4, on the trimmed text: it starts with the literal NOT_FOUND
starts_with_sentinel(s) == s # <<>> /\ Head(s) # <<>> /\ Head(Head(s)) = SENTINEL

front_matter_any_blank_lines(s) ==
    IF Len(s) >= 5 /\ s[1] = DELIMITER
    THEN LET ends == {k \in 3..(Len(s) - 2) :
                        /\ s[k] = DELIMITER
                        /\ \A j \in 2..(k - 1) : s[j] # DELIMITER
                        /\ s[k + 1] = <<>>}
         IN  IF ends = {} THEN 0 ELSE CHOOSE k \in ends : TRUE
    ELSE 0

\* Step 5, on the trimmed text: the index of the closing delimiter when the
\* text starts with a line "---", one or more lines that are not "---", a line
\* "---", exactly one blank line and then content; 0 when it does not.
front_matter_end(s) ==
    IF Len(s) >= 5 /\ s[1] = DELIMITER
    THEN LET ends == {k \in 3..(Len(s) - 2) :
                        /\ s[k] = DELIMITER
                        /\ \A j \in 2..(k - 1) : s[j] # DELIMITER
                        /\ s[k + 1] = <<>>
                        /\ s[k + 2] # <<>>}
         IN  IF ends = {} THEN 0 ELSE CHOOSE k \in ends : TRUE
    ELSE 0

\* Step 5: everything after the single blank line, trimmed; the trimmed text
\* itself when the shape does not match
strip_front_matter(s) ==
    IF front_matter_end(s) = 0
    THEN s
    ELSE strip(SubSeq(s, front_matter_end(s) + 2, Len(s)))

\* A line that starts with a fence
IsFenceLine(l) == l # <<>> /\ Head(l) = FENCE

\* An opening fence: the fence, an optional language tag, end of line
IsOpeningFence(l) == IsFenceLine(l) /\ Len(l) <= 2

\* The first line of t from index i on that starts with a fence, 0 if none
RECURSIVE next_fence(_, _)
next_fence(t, i) ==
    IF i > Len(t) THEN 0 ELSE IF IsFenceLine(t[i]) THEN i ELSE next_fence(t, i + 1)

language_kept_empty(l) == IF Len(l) = 2 THEN l[2] ELSE ""

\* The language of an opening fence
language(l) == IF Len(l) = 2 THEN l[2] ELSE DEFAULT_LANGUAGE

keep_snippet_always(body) == TRUE

\* A fenced region whose body is empty after trimming is discarded
keep_snippet(body) == strip(body) # <<>>

\* Step 6: the snippets of the fenced regions of t, in order of occurrence
RECURSIVE code_snippets(_)
code_snippets(t) ==
    IF t = <<>> THEN <<>>
    ELSE IF ~IsOpeningFence(Head(t)) THEN code_snippets(Tail(t))
    ELSE LET close == next_fence(t, 2)
         IN  IF close = 0
             THEN <<>>
             ELSE (IF keep_snippet(SubSeq(t, 2, close - 1))
                   THEN <<[language |-> language(Head(t)),
                           code |-> strip(SubSeq(t, 2, close - 1))]>>
                   ELSE <<>>)
                  \o code_snippets(SubSeq(t, close + 1, Len(t)))

\* What the AI client's extract_solution gives: values of the Python types
\* the tests pass
PyNone == [type |-> "NoneType"]

PyStr(t) == [type |-> "str", text |-> t]

PyOther(type) == [type |-> type]

PyDict(has_key, value) == [type |-> "dict", has_key |-> has_key, value |-> value]

valid_shape_without_model(ai) ==
    /\ ai.response.type = "dict"
    /\ ai.response.has_key
    /\ ai.response.value.type = "str"

\* Step 3: the result is a mapping, it has the key "raw_response", the value
\* is a str, and the client exposes a model name
valid_shape(ai) ==
    /\ ai.response.type = "dict"
    /\ ai.response.has_key
    /\ ai.response.value.type = "str"
    /\ ai.has_model

SeqsUpTo(S, n) == UNION {[1..k -> S] : k \in 0..n}

\* Lines of the texts the NOT_FOUND cases are drawn from
NotFoundLines ==
    { <<>>, <<WS>>, <<SENTINEL>>, <<SENTINEL, ": missing">>, <<WS, SENTINEL>>,
      <<"not_found">>, <<"Not_Found">>, <<"The result is ", SENTINEL>>,
      <<FENCE, "text">>, <<FENCE>>, <<"Here">> }

\* Lines of the texts the front-matter cases are drawn from
FrontMatterLines == { DELIMITER, <<>>, <<"meta">>, <<"----">> }

\* Lines of the texts the code-block cases are drawn from
FenceLines == { <<FENCE, "python">>, <<FENCE, "cpp">>, <<FENCE>>, <<"x=1">>, <<>> }

Texts ==
    SeqsUpTo(NotFoundLines, MaxNotFoundLines)
        \cup SeqsUpTo(FrontMatterLines, MaxFrontMatterLines)
        \cup SeqsUpTo(FenceLines, MaxFenceLines)

\* The results of the AI call that are no mapping with a str under
\* "raw_response"
MalformedResponses ==
    {PyNone, PyOther("list"), PyOther("tuple"), PyOther("str"), PyOther("int")}
        \cup {PyDict(FALSE, PyNone)}
        \cup {PyDict(TRUE, v) : v \in {PyNone, PyOther("int"), PyOther("list"), PyOther("dict")}}

AIClients ==
    {[raises |-> r, has_model |-> m, response |-> v] :
        r \in BOOLEAN, m \in BOOLEAN, v \in MalformedResponses \cup {PyDict(TRUE, PyStr(<<>>))}}
      \cup {[raises |-> FALSE, has_model |-> TRUE, response |-> PyDict(TRUE, PyStr(t))] :
                t \in Texts}

InitExtract ==
    /\ variant = "async"
    /\ cache_ttl_hours = DEFAULT_TTL_HOURS
    /\ now = 0
    /\ finder = NoFinder
    /\ clients = NoClients
    /\ keycase = NoKeyCase
    /\ ticks = 0
    /\ store = [k \in Keys(variant) |-> NoItem]
    /\ pc = [r \in Runs |-> "idle"]
    /\ args = [r \in Runs |-> NoArgs]
    /\ local = [r \in Runs |-> InitLocal]
    /\ calls = [r \in Runs |-> <<>>]
    /\ result = [r \in Runs |-> NoResult]
    /\ rt = NoRoundTrip
    /\ http = NoHttp
    /\ parser = NoParser
    /\ urlcase = NoUrlCase
    /\ \E ai \in AIClients : extract = [step |-> "start", ai |-> ai]

\* Steps 2 and 3: the AI call and the validation of what it gave
ExtractValidate ==
    /\ extract.step = "start"
    /\ extract' =
        IF extract.ai.raises \/ ~valid_shape(extract.ai)
        THEN [step |-> "done", ai |-> extract.ai, out |-> Raised("ExtractionError")]
        ELSE [step |-> "validated", ai |-> extract.ai,
              text |-> strip(extract.ai.response.value.text)]
    /\ UNCHANGED <<pipeline, rt, http, parser, urlcase, finder, clients, keycase>>

\* Steps 4 to 7: NOT_FOUND protocol, front matter, code blocks, the Editorial
ExtractParse ==
    /\ extract.step = "validated"
    /\ extract' =
        [step |-> "done", ai |-> extract.ai,
         out |-> IF starts_with_sentinel(extract.text)
                 THEN Raised("ExtractionError")
                 ELSE [solution_text |-> strip_front_matter(extract.text),
                       code_snippets |-> code_snippets(strip_front_matter(extract.text)),
                       ai_model |-> "model"]]
    /\ UNCHANGED <<pipeline, rt, http, parser, urlcase, finder, clients, keycase>>

NextExtract == ExtractValidate \/ ExtractParse

SpecExtract == InitExtract /\ [][NextExtract]_vars

----------------------------------------------------------------------------
(* URLParser.parse and URLParser.build_problem_url on their own             *)
(* (specification SpecUrl)                                                  *)

\* codeforces_editorial/parsers/url_parser.py and domain/parsers/url_parser.py
UrlParsers == {"sync", "domain"}

parse(p, u) == IF p = "sync" THEN parse_sync(u) ELSE parse_domain(u)

build_problem_url(p, id) ==
    IF p = "sync" THEN build_problem_url_sync(id) ELSE build_problem_url_domain(id)

\* The identifiers each parser's ProblemIdentifier class constructs from a
\* contest id of digits, an index and a gym flag
ValidIdentifiers(p) ==
    IF p = "sync"
    THEN {ProblemIdentifier(c, i, g) : c \in Digits, i \in Indexes, g \in BOOLEAN}
    ELSE {ProblemIdentifier_init(c, i, g) : c \in Digits, i \in Indexes, g \in BOOLEAN}

Schemes == {"", "https"}

HostSegments ==
    {Seg("codeforces.com"), Seg("codeforces.ru"), <<"not", "codeforces.com">>,
     Seg("google.com"), Seg("not_a_url")}

ContestSegments == {Seg("1234"), Seg("007"), Seg("abc")}

IndexSegments == {Seg("A"), Seg("B1"), <<"A", "bc">>, Seg("abc")}

\* Paths of the three shapes, with contest ids and indexes that fit and that
\* do not
ProblemPaths ==
    {<<Seg(k), c, Seg("problem"), i>> :
        k \in {"contest", "gym"}, c \in ContestSegments, i \in IndexSegments}
    \cup {<<Seg("problemset"), Seg("problem"), c, i>> :
            c \in ContestSegments, i \in IndexSegments}

\* Those paths, other pages, and paths that hold a Codeforces address or a
\* gym segment further on
Paths ==
    {<<>>, <<Seg("blog"), Seg("entry"), Seg("1234")>>}
        \cup ProblemPaths
        \cup {<<Seg("codeforces.com")>> \o p : p \in ProblemPaths}
        \cup {p \o <<Seg("gym"), <<>>>> : p \in ProblemPaths}

UrlTexts == {Url(s, h, p) : s \in Schemes, h \in HostSegments, p \in Paths} \cup {NotAStr}

InitUrl ==
    /\ variant = "async"
    /\ cache_ttl_hours = DEFAULT_TTL_HOURS
    /\ now = 0
    /\ finder = NoFinder
    /\ clients = NoClients
    /\ keycase = NoKeyCase
    /\ ticks = 0
    /\ store = [k \in Keys(variant) |-> NoItem]
    /\ pc = [r \in Runs |-> "idle"]
    /\ args = [r \in Runs |-> NoArgs]
    /\ local = [r \in Runs |-> InitLocal]
    /\ calls = [r \in Runs |-> <<>>]
    /\ result = [r \in Runs |-> NoResult]
    /\ rt = NoRoundTrip
    /\ http = NoHttp
    /\ parser = NoParser
    /\ extract = NoExtract
    /\ \/ \E p \in UrlParsers, u \in UrlTexts :
            urlcase = [step |-> "start", parser |-> p, op |-> "parse", url |-> u]
       \/ \E p \in UrlParsers : \E id \in ValidIdentifiers(p) :
            urlcase = [step |-> "start", parser |-> p, op |-> "round_trip", id |-> id]

\* URLParser.parse(url)
UrlParse ==
    /\ urlcase.step = "start"
    /\ urlcase.op = "parse"
    /\ urlcase' = [step |-> "done", parser |-> urlcase.parser, op |-> "parse",
                   url |-> urlcase.url, out |-> parse(urlcase.parser, urlcase.url)]
    /\ UNCHANGED <<pipeline, rt, http, parser, extract, finder, clients, keycase>>

\* URLParser.build_problem_url(identifier)
UrlBuild ==
    /\ urlcase.step = "start"
    /\ urlcase.op = "round_trip"
    /\ urlcase' = [step |-> "built", parser |-> urlcase.parser, op |-> "round_trip",
                   id |-> urlcase.id,
                   url |-> build_problem_url(urlcase.parser, urlcase.id)]
    /\ UNCHANGED <<pipeline, rt, http, parser, extract, finder, clients, keycase>>

\* URLParser.parse of the URL that was built
UrlParseBuilt ==
    /\ urlcase.step = "built"
    /\ urlcase' = [step |-> "done", parser |-> urlcase.parser, op |-> "round_trip",
                   id |-> urlcase.id, url |-> urlcase.url,
                   out |-> parse(urlcase.parser, urlcase.url)]
    /\ UNCHANGED <<pipeline, rt, http, parser, extract, finder, clients, keycase>>

NextUrl == UrlParse \/ UrlBuild \/ UrlParseBuilt

SpecUrl == InitUrl /\ [][NextUrl]_vars

----------------------------------------------------------------------------
(* TutorialFinder.find_tutorial (specification SpecFind):                   *)
(* codeforces_editorial/fetchers/tutorial_finder.py with the                *)
(* find_editorial_link of the AI clients.                                   *)
(*                                                                          *)
(* A model reply is a sequence of tokens; "http://", "https://" and "http"  *)
(* (the four letters followed by something else than "://" or "s://") are   *)
(* tokens of their own, WS is a run of whitespace.                          *)

\* The longest list of blog-entry links a search result holds in the model
MaxSearchMatches == 4

\* matches[:3]
FIRST_FEW == 3

Nothing == [found |-> FALSE]

Found(url) == [found |-> TRUE, url |-> url]

\* The tokens whose text starts with the letters http
HttpPrefixes == {"http://", "https://", "http"}

\* The replies of the model
Replies ==
    { <<>>,
      <<"NOT_FOUND">>,
      <<"https://", "codeforces.com/blog/entry/1">>,
      <<WS, "https://", "codeforces.com/blog/entry/1", WS>>,
      <<"http://", "codeforces.com/blog/entry/1">>,
      <<"/", "blog/entry/1">>,
      <<"http", "bin.org/blog/entry/1">>,
      <<"The editorial is at ", "https://", "codeforces.com/blog/entry/1">> }

\* find_editorial_link: response.strip(); None for "NOT_FOUND" and for a text
\* that does not start with "http", the text otherwise
find_editorial_link(reply) ==
    LET response == rstrip_line(lstrip_line(reply))
    IN  IF response = <<"NOT_FOUND">> \/ response = <<>> \/ Head(response) \notin HttpPrefixes
        THEN Nothing
        ELSE Found(response)

\* TutorialFinder._normalize_url
_normalize_url(url) ==
    LET absolute == IF url # <<>> /\ Head(url) = "/"
                    THEN <<"https://", "codeforces.com">> \o url
                    ELSE url
    IN  IF absolute # <<>> /\ Head(absolute) = "http://"
        THEN <<"https://">> \o Tail(absolute)
        ELSE absolute

\* What the fetch of a page and the model call give
Fetched == [raises |-> FALSE]

FetchRaises(kind) == [raises |-> TRUE, kind |-> kind]

Replied(reply) == [raises |-> FALSE, reply |-> reply]

try_contest_page_propagates(page, answer) ==
    IF page.raises THEN Raised(page.kind)
    ELSE IF answer.raises THEN Raised(answer.kind)
    ELSE IF find_editorial_link(answer.reply).found
    THEN Found(_normalize_url(find_editorial_link(answer.reply).url))
    ELSE Nothing

\* TutorialFinder._try_contest_page: the page fetch, the model call and the
\* normalization, inside "try ... except Exception: log", then None
try_contest_page(page, answer) ==
    IF page.raises \/ answer.raises THEN Nothing
    ELSE IF find_editorial_link(answer.reply).found
    THEN Found(_normalize_url(find_editorial_link(answer.reply).url))
    ELSE Nothing

search_always(first) == TRUE

\* find_tutorial: "if tutorial_url: return tutorial_url" after the first
\* strategy; the second strategy starts only without a URL
search_after(first) == ~first.found

all_matches(matches) == matches

\* matches[:3]
first_few(matches) ==
    SubSeq(matches, 1, IF Len(matches) < FIRST_FEW THEN Len(matches) ELSE FIRST_FEW)

\* What the fetch of a blog entry gives: it raises, or a body that holds the
\* problem index, the full id (which holds the index too), or neither
BlogOutcomes == {"raises", "has_index", "has_full_id", "other"}

\* identifier.problem_id in blog_html or identifier.full_id in blog_html
Qualifies(outcome) == outcome \in {"has_index", "has_full_id"}

\* re.findall(blog_pattern, html) on the search page: the blog entries in
\* their order of appearance, each with what its fetch will give
SearchResults == UNION {[1..n -> BlogOutcomes] : n \in 0..MaxSearchMatches}

FinderCall(op, target, n) == [op |-> op, target |-> target, n |-> n]

FinderIdentifiers ==
    {ProblemIdentifier("1234", "A", FALSE), ProblemIdentifier("1234", "B1", TRUE)}

InitFind ==
    /\ variant = "sync"
    /\ cache_ttl_hours = DEFAULT_TTL_HOURS
    /\ now = 0
    /\ clients = NoClients
    /\ keycase = NoKeyCase
    /\ ticks = 0
    /\ store = [k \in Keys(variant) |-> NoItem]
    /\ pc = [r \in Runs |-> "idle"]
    /\ args = [r \in Runs |-> NoArgs]
    /\ local = [r \in Runs |-> InitLocal]
    /\ calls = [r \in Runs |-> <<>>]
    /\ result = [r \in Runs |-> NoResult]
    /\ rt = NoRoundTrip
    /\ http = NoHttp
    /\ parser = NoParser
    /\ extract = NoExtract
    /\ urlcase = NoUrlCase
    /\ \E id \in FinderIdentifiers :
        finder = [pc |-> "contest_page", identifier |-> id, calls |-> <<>>,
                  first |-> Nothing, answer |-> Replied(<<>>), matches |-> <<>>,
                  next |-> 0, out |-> Nothing]

\* find_tutorial up to the end of the first strategy
TryContestPage ==
    /\ finder.pc = "contest_page"
    /\ \E page \in {Fetched, FetchRaises("NetworkError")},
          answer \in {Replied(r) : r \in Replies} \cup {FetchRaises("OpenAIAPIError")} :
        LET first == try_contest_page(page, answer)
            made  == <<FinderCall("get_text", "contest", 0)>>
                       \o (IF page.raises THEN <<>>
                           ELSE <<FinderCall("find_editorial_link", "contest", 0)>>)
        IN  finder' =
              IF IsRaised(first)
              THEN [finder EXCEPT !.pc = "done", !.calls = made, !.answer = answer,
                                  !.out = first]
              ELSE IF search_after(first)
              THEN [finder EXCEPT !.pc = "search", !.calls = made, !.answer = answer,
                                  !.first = first]
              ELSE [finder EXCEPT !.pc = "done", !.calls = made, !.answer = answer,
                                  !.first = first, !.out = first]
    /\ UNCHANGED <<pipeline, rt, http, parser, extract, urlcase, clients, keycase>>

\* _try_blog_patterns up to the loop: the search request and re.findall
SearchBlogs ==
    /\ finder.pc = "search"
    /\ \/ \E m \in SearchResults :
            finder' =
              IF first_few(m) = <<>>
              THEN [finder EXCEPT !.pc = "done", !.matches = m,
                                  !.calls = Append(@, FinderCall("get_text", "search", 0)),
                                  !.out = IF finder.first.found THEN finder.first
                                          ELSE Raised("EditorialNotFoundError")]
              ELSE [finder EXCEPT !.pc = "candidates", !.matches = m, !.next = 1,
                                  !.calls = Append(@, FinderCall("get_text", "search", 0))]
       \/ finder' = [finder EXCEPT !.pc = "done",
                                   !.calls = Append(@, FinderCall("get_text", "search", 0)),
                                   !.out = IF finder.first.found THEN finder.first
                                           ELSE Raised("EditorialNotFoundError")]
    /\ UNCHANGED <<pipeline, rt, http, parser, extract, urlcase, clients, keycase>>

\* One round of "for match in matches[:3]": the fetch of the candidate and its
\* validation; after the last round find_tutorial raises
CheckCandidate ==
    /\ finder.pc = "candidates"
    /\ LET n    == finder.next
           made == Append(finder.calls, FinderCall("get_text", "blog", n))
       IN  finder' =
             IF Qualifies(finder.matches[n])
             THEN [finder EXCEPT !.pc = "done", !.calls = made,
                                 !.out = Found(<<"https://", "codeforces.com", "/blog/entry/", n>>)]
             ELSE IF n < Len(first_few(finder.matches))
             THEN [finder EXCEPT !.calls = made, !.next = n + 1]
             ELSE [finder EXCEPT !.pc = "done", !.calls = made,
                                 !.out = IF finder.first.found THEN finder.first
                                         ELSE Raised("EditorialNotFoundError")]
    /\ UNCHANGED <<pipeline, rt, http, parser, extract, urlcase, clients, keycase>>

NextFind == TryContestPage \/ SearchBlogs \/ CheckCandidate

SpecFind == InitFind /\ [][NextFind]_vars

----------------------------------------------------------------------------
(* Two concurrent get_editorial calls for one problem (specification        *)
(* SpecConcurrent): the async and the service implementation, whose awaits  *)
(* (cache, parsers, finder, extractor) are the points where the other call  *)
(* runs.  Time stands still during the two calls.                          *)

\* The problem both calls ask for
SharedUrl ==
    Url("https", Seg("codeforces.com"),
        <<Seg("problemset"), Seg("problem"), Seg("1234"), Seg("A")>>)

SharedProblem == URLParser_parse(variant, SharedUrl)

InitConcurrent ==
    /\ variant \in {"async", "service"}
    /\ cache_ttl_hours = DEFAULT_TTL_HOURS
    /\ now = 0
    /\ finder = NoFinder
    /\ clients = NoClients
    /\ keycase = NoKeyCase
    /\ ticks = 0
    /\ store = [k \in Keys(variant) |-> NoItem]
    /\ pc = [r \in Runs |-> "idle"]
    /\ args = [r \in Runs |-> NoArgs]
    /\ local = [r \in Runs |-> InitLocal]
    /\ calls = [r \in Runs |-> <<>>]
    /\ result = [r \in Runs |-> NoResult]
    /\ rt = NoRoundTrip
    /\ http = NoHttp
    /\ parser = NoParser
    /\ extract = NoExtract
    /\ urlcase = NoUrlCase

\* get_editorial is called for a URL of the shared problem
ResolveShared(r) ==
    /\ Resolve(r)
    /\ pc'[r] # "done"
    /\ local'[r].identifier = SharedProblem

\* The steps of one call
RunStep(r) ==
    \/ ResolveShared(r)
    \/ GetFromCache(r)
    \/ ParseProblemPage(r)
    \/ FindTutorial(r)
    \/ ParseTutorial(r)
    \/ Extract(r)
    \/ SaveToCache(r)

NextConcurrent ==
    \/ \E r \in Runs : ResolveShared(r)
    \/ \E r \in Runs : GetFromCache(r)
    \/ \E r \in Runs : ParseProblemPage(r)
    \/ \E r \in Runs : FindTutorial(r)
    \/ \E r \in Runs : ParseTutorial(r)
    \/ \E r \in Runs : Extract(r)
    \/ \E r \in Runs : SaveToCache(r)

SpecConcurrent == InitConcurrent /\ [][NextConcurrent]_vars

----------------------------------------------------------------------------
(* The clients of a pipeline run (specification SpecClients): the request   *)
(* scopes of api/dependencies.py (provide_http_client, provide_cache_client, *)
(* provide_clients) and the "with EditorialOrchestrator(...)" of the CLI.   *)

ClientScopes ==
    {"provide_http_client", "provide_cache_client", "provide_clients",
     "cli", "cli_no_cache"}

\* The constructors a scope calls, in the order of the code
ConstructOrder(scope) ==
    CASE scope = "provide_http_client" -> <<"http">>
      [] scope = "provide_cache_client" -> <<"cache">>
      [] scope = "provide_clients" -> <<"http", "cache">>
      [] scope = "cli" -> <<"cache", "http", "ai">>
      [] scope = "cli_no_cache" -> <<"http", "ai">>

\* The close calls of the finally clause / of __exit__, in the order of the
\* code; EditorialOrchestrator.__exit__ closes the cache only when it has
\* one, and never the LLM client
CloseOrder(scope) ==
    CASE scope = "provide_http_client" -> <<"http">>
      [] scope = "provide_cache_client" -> <<"cache">>
      [] scope = "provide_clients" -> <<"http", "cache">>
      [] scope = "cli" -> <<"http", "cache">>
      [] scope = "cli_no_cache" -> <<"http">>

\* The Redis client of the API opens its connection in connect(), every
\* other client in its constructor
OpensOnConnect(scope, c) ==
    scope \in {"provide_cache_client", "provide_clients"} /\ c = "cache"

\* EditorialCache.close catches what the store raises; the other close
\* methods pass it on
close_swallows(scope, c) == scope \in {"cli", "cli_no_cache"} /\ c = "cache"

\* How the body of the scope ends
ExitPaths == {"success", "failure", "cancellation"}

CloseErrors == {"RuntimeError", "CancelledError"}

InitClients ==
    /\ variant = "sync"
    /\ cache_ttl_hours = DEFAULT_TTL_HOURS
    /\ now = 0
    /\ finder = NoFinder
    /\ keycase = NoKeyCase
    /\ ticks = 0
    /\ store = [k \in Keys(variant) |-> NoItem]
    /\ pc = [r \in Runs |-> "idle"]
    /\ args = [r \in Runs |-> NoArgs]
    /\ local = [r \in Runs |-> InitLocal]
    /\ calls = [r \in Runs |-> <<>>]
    /\ result = [r \in Runs |-> NoResult]
    /\ rt = NoRoundTrip
    /\ http = NoHttp
    /\ parser = NoParser
    /\ extract = NoExtract
    /\ urlcase = NoUrlCase
    /\ \E scope \in ClientScopes :
        clients = [pc |-> "construct", scope |-> scope, next |-> 1,
                   opened |-> {}, closed |-> {}, exit |-> "none",
                   raised |-> "none"]

\* The next constructor of the scope; the constructors run before any try
ClientsConstruct ==
    /\ clients.pc = "construct"
    /\ LET order == ConstructOrder(clients.scope)
           c     == order[clients.next]
           last  == clients.next = Len(order)
       IN  \/ clients' = [clients EXCEPT
                 !.opened = IF OpensOnConnect(clients.scope, c) THEN @ ELSE @ \cup {c},
                 !.next = IF last THEN 1 ELSE @ + 1,
                 !.pc = IF ~last THEN "construct"
                        ELSE IF \E d \in {"cache"} : OpensOnConnect(clients.scope, d)
                             THEN "connect" ELSE "body"]
           \/ clients' = [clients EXCEPT !.pc = "done", !.exit = "construction",
                                         !.raised = c]
    /\ UNCHANGED <<pipeline, rt, http, parser, extract, urlcase, finder, keycase>>

\* await cache_client.connect() inside try/except Exception
ClientsConnect ==
    /\ clients.pc = "connect"
    /\ \/ clients' = [clients EXCEPT !.opened = @ \cup {"cache"}, !.pc = "body"]
       \/ clients' = [clients EXCEPT !.pc = "body"]
    /\ UNCHANGED <<pipeline, rt, http, parser, extract, urlcase, finder, keycase>>

\* The body of the scope (the request handler after yield, the body of the
\* with statement) ends; the finally clause / __exit__ runs on every path
ClientsBody ==
    /\ clients.pc = "body"
    /\ \E x \in ExitPaths : clients' = [clients EXCEPT !.exit = x, !.pc = "close"]
    /\ UNCHANGED <<pipeline, rt, http, parser, extract, urlcase, finder, keycase>>

\* The next close call of the finally clause / of __exit__
ClientsClose ==
    /\ clients.pc = "close"
    /\ LET order == CloseOrder(clients.scope)
           c     == order[clients.next]
           last  == clients.next = Len(order)
       IN  \/ clients' = [clients EXCEPT !.closed = @ \cup {c},
                                         !.next = @ + 1,
                                         !.pc = IF last THEN "done" ELSE "close"]
           \/ \E k \in CloseErrors :
                IF close_swallows(clients.scope, c)
                THEN clients' = [clients EXCEPT !.next = @ + 1,
                                                !.pc = IF last THEN "done" ELSE "close"]
                ELSE clients' = [clients EXCEPT !.pc = "done", !.raised = k]
    /\ UNCHANGED <<pipeline, rt, http, parser, extract, urlcase, finder, keycase>>

NextClients ==
    \/ ClientsConstruct
    \/ ClientsConnect
    \/ ClientsBody
    \/ ClientsClose

SpecClients == InitClients /\ [][NextClients]_vars

----------------------------------------------------------------------------
(* Cache keys (specification SpecKey): an entry is stored under the key of  *)
(* one identifier and looked up under the key of another, for each of the   *)
(* three key functions of the sources.                                      *)

\* ProblemIdentifier.cache_key of domain/models/problem.py:
\* contest_id "-" problem_index
cache_key_problem(id) == <<id.contest_id, "-", id.problem_id>>

KeyFunctions == {"models.cache_key", "problem.cache_key", "EditorialCache._get_key"}

\* The key a key function gives an identifier
key_of(fn, id) ==
    CASE fn = "models.cache_key" -> <<fn>> \o cache_key(id)
      [] fn = "problem.cache_key" -> <<fn>> \o cache_key_problem(id)
      [] fn = "EditorialCache._get_key" -> <<fn>> \o _get_key(id)

KeyIdentifiers ==
    {ProblemIdentifier_init(c, p, g) : c \in {"7", "1234"}, p \in {"A", "B1"}, g \in BOOLEAN}

InitKey ==
    /\ variant = "sync"
    /\ cache_ttl_hours = DEFAULT_TTL_HOURS
    /\ now = 0
    /\ finder = NoFinder
    /\ clients = NoClients
    /\ ticks = 0
    /\ store = [k \in Keys(variant) |-> NoItem]
    /\ pc = [r \in Runs |-> "idle"]
    /\ args = [r \in Runs |-> NoArgs]
    /\ local = [r \in Runs |-> InitLocal]
    /\ calls = [r \in Runs |-> <<>>]
    /\ result = [r \in Runs |-> NoResult]
    /\ rt = NoRoundTrip
    /\ http = NoHttp
    /\ parser = NoParser
    /\ extract = NoExtract
    /\ urlcase = NoUrlCase
    /\ \E fn \in KeyFunctions, a \in KeyIdentifiers, b \in KeyIdentifiers :
        keycase = [step |-> "start", fn |-> fn, stored_for |-> a, lookup_for |-> b,
                   stored_under |-> <<>>, found |-> FALSE]

\* The editorial of stored_for is written under its key
KeySet ==
    /\ keycase.step = "start"
    /\ keycase' = [keycase EXCEPT !.step = "stored",
                      !.stored_under = key_of(keycase.fn, keycase.stored_for)]
    /\ UNCHANGED <<pipeline, rt, http, parser, extract, urlcase, finder, clients>>

\* The editorial of lookup_for is looked up under its key
KeyGet ==
    /\ keycase.step = "stored"
    /\ keycase' = [keycase EXCEPT !.step = "done",
                      !.found = (key_of(keycase.fn, keycase.lookup_for)
                                    = keycase.stored_under)]
    /\ UNCHANGED <<pipeline, rt, http, parser, extract, urlcase, finder, clients>>

NextKey ==
    \/ KeySet
    \/ KeyGet

SpecKey == InitKey /\ [][NextKey]_vars

----------------------------------------------------------------------------
(* Two concurrent sync get_editorial calls on an expired entry              *)
(* (specification SpecRace).  The store keeps an entry for                  *)
(* settings.cache_ttl_hours, the entry counts as expired after its own      *)
(* ttl_hours: with a store TTL of twice the default, an entry written at    *)
(* time 0 is still in the store, and expired, half an hour after the        *)
(* default TTL.                                                             *)

\* The time of the two calls
RaceTime == DEFAULT_TTL_HOURS * SECONDS_PER_HOUR + HalfHour

\* The entry an earlier call wrote at time 0
StaleEntry ==
    CachedEditorial(SharedProblem,
                    Editorial(full_id(SharedProblem), "stale",
                              "https://codeforces.com/blog/entry/1", DateTime(0, 0)),
                    "https://codeforces.com/blog/entry/1", "html",
                    DateTime(0, 0), DEFAULT_TTL_HOURS)

InitRace ==
    /\ variant = "sync"
    /\ cache_ttl_hours = 2 * DEFAULT_TTL_HOURS
    /\ now = RaceTime
    /\ finder = NoFinder
    /\ clients = NoClients
    /\ keycase = NoKeyCase
    /\ ticks = 0
    /\ store = StoreSet([k \in Keys(variant) |-> NoItem],
                        KeyOf(variant, SharedProblem),
                        to_dict("models", StaleEntry), 0, cache_ttl_hours)
    /\ pc = [r \in Runs |-> "idle"]
    /\ args = [r \in Runs |-> NoArgs]
    /\ local = [r \in Runs |-> InitLocal]
    /\ calls = [r \in Runs |-> <<>>]
    /\ result = [r \in Runs |-> NoResult]
    /\ rt = NoRoundTrip
    /\ http = NoHttp
    /\ parser = NoParser
    /\ extract = NoExtract
    /\ urlcase = NoUrlCase

NextRace ==
    \/ \E r \in Runs : ResolveShared(r)
    \/ \E r \in Runs : CacheGet(r)
    \/ \E r \in Runs : CacheEvict(r)
    \/ \E r \in Runs : ParseProblemPage(r)
    \/ \E r \in Runs : FindTutorial(r)
    \/ \E r \in Runs : ParseTutorial(r)
    \/ \E r \in Runs : Extract(r)
    \/ \E r \in Runs : SaveToCache(r)

SpecRace == InitRace /\ [][NextRace]_vars

----------------------------------------------------------------------------
(* A get_editorial call and the next one (specification SpecRepeat): the    *)
(* first call ends, time passes, the second call runs.  The outcome of the  *)
(* first call is kept for the comparison.                                   *)

\* The URLs of the second call: those of the first, and the contest form of
\* the problemset URL
RepeatUrls ==
    UrlInputs \cup
    {Url("https", Seg("codeforces.com"),
         <<Seg("contest"), Seg("1234"), Seg("problem"), Seg("A")>>)}

InitRepeat ==
    /\ variant \in Variants
    /\ cache_ttl_hours \in {DEFAULT_TTL_HOURS, 2 * DEFAULT_TTL_HOURS}
    /\ now = 0
    /\ finder = NoFinder
    /\ clients = NoClients
    /\ keycase = NoKeyCase
    /\ ticks = 0
    /\ store = [k \in Keys(variant) |-> NoItem]
    /\ pc = [r \in Runs |-> "idle"]
    /\ args = [r \in Runs |-> NoArgs]
    /\ local = [r \in Runs |-> InitLocal]
    /\ calls = [r \in Runs |-> <<>>]
    /\ result = [r \in Runs |-> NoResult]
    /\ rt = NoRoundTrip
    /\ http = NoHttp
    /\ parser = NoParser
    /\ extract = NoExtract
    /\ urlcase = NoUrlCase

\* The first call
FirstCall ==
    /\ pc["r2"] = "idle"
    /\ Resolve("r1")

\* Wall-clock time passes between the two calls
TickBetween ==
    /\ ticks < MaxTicks
    /\ pc["r1"] = "done" /\ pc["r2"] = "idle"
    /\ \E d \in TickSteps : now' = now + d
    /\ ticks' = ticks + 1
    /\ UNCHANGED <<variant, cache_ttl_hours, store, pc, args, local, calls, result, rt, http, parser, extract, urlcase, finder, clients, keycase>>

\* The next call, after the first one returned an editorial it had written
\* to the cache
NextCall ==
    /\ pc["r1"] = "done"
    /\ result["r1"].status = "ok"
    /\ local["r1"].write = "ok"
    /\ ResolveFrom("r2", RepeatUrls)

NextRepeat ==
    \/ FirstCall
    \/ TickBetween
    \/ NextCall
    \/ \E r \in Runs : GetFromCache(r)
    \/ \E r \in Runs : CacheGet(r)
    \/ \E r \in Runs : CacheEvict(r)
    \/ \E r \in Runs : ParseProblemPage(r)
    \/ \E r \in Runs : FindTutorial(r)
    \/ \E r \in Runs : ParseTutorial(r)
    \/ \E r \in Runs : Extract(r)
    \/ \E r \in Runs : SaveToCache(r)

SpecRepeat == InitRepeat /\ [][NextRepeat]_vars

----------------------------------------------------------------------------
(* Properties of get_editorial (specification Spec) *)

IsPrefix(s, t) == Len(s) <= Len(t) /\ \A i \in 1..Len(s) : s[i] = t[i]

Has(s, x) == \E i \in 1..Len(s) : s[i] = x

CacheCalls == {"cache_get", "cache_set", "cache_delete"}

PipelineCalls == <<"parse_problem_page", "find_tutorial", "parse_tutorial", "extract">>

PipelineStages == {"resolve", "parse_problem_page", "find_tutorial", "parse_tutorial", "extract"}

\* The calls of a complete run whose lookup gave no entry
MissCalls(loc) ==
    <<"cache_get">> \o (IF loc.lookup = "expired" THEN <<"cache_delete">> ELSE <<>>)
        \o PipelineCalls \o <<"cache_set">>

\* The store holds no entry that was not there when the call started
NoEntryWritten(r) ==
    \/ pc[r] = "idle"
    \/ \A k \in DOMAIN store : store[k] = local[r].store_at_call[k] \/ store[k] = NoItem

\* C1: with caching enabled, a run whose cache lookup returned an entry calls
\* the problem-page parser exactly once and nothing else after the lookup
\* (no tutorial finder, no tutorial parser, no extractor, no cache write), and
\* what it returns is the editorial of the entry in the store together with
\* the problem data fetched in this run.
C1_CacheHitSkipsPipeline ==
    \A r \in Runs : local[r].lookup = "hit" =>
        /\ IsPrefix(calls[r], <<"cache_get", "parse_problem_page">>)
        /\ local[r].write = "none"
        /\ store = local[r].store_at_call
        /\ pc[r] = "done" =>
            /\ calls[r] = <<"cache_get", "parse_problem_page">>
            /\ local[r].failed_at \in {"none", "parse_problem_page"}
            /\ local[r].failed_at = "none" => result[r].status = "ok"
        /\ result[r].status = "ok" =>
            /\ result[r].editorial = local[r].cached.editorial
            /\ result[r].editorial =
                 from_dict("models", store[KeyOf(variant, local[r].identifier)].data).editorial
            /\ result[r].problem_data = local[r].problem_data
            /\ result[r].problem_data.identifier = local[r].identifier

\* C1 witness: a run returned on the hit path
C1_Witness ==
    \E r \in Runs : local[r].lookup = "hit" /\ result[r].status = "ok"

\* C2: with caching enabled, a run whose lookup gave no entry calls the
\* problem-page parser, the tutorial finder, the tutorial parser and the
\* extractor in this order, each once; when every stage succeeds it then
\* writes the cache once, under the problem's key, and returns the extracted
\* editorial with the problem data.
C2_CacheMissRunsPipelineInOrder ==
    \A r \in Runs : local[r].lookup \in {"miss", "failed", "expired"} =>
        /\ IsPrefix(calls[r], MissCalls(local[r]))
        /\ (result[r].status = "ok" /\ local[r].write # "failed") =>
            /\ calls[r] = MissCalls(local[r])
            /\ local[r].write = "ok"
            /\ store[KeyOf(variant, local[r].identifier)] =
                 Item(to_dict("models", NewCachedEditorial(local[r], now)),
                      now + cache_ttl_hours * SECONDS_PER_HOUR)
            /\ \A k \in DOMAIN store \ {KeyOf(variant, local[r].identifier)} :
                 store[k] = local[r].store_at_call[k]
            /\ result[r] = Returned(local[r].editorial, local[r].problem_data)
            /\ local[r].editorial.problem_id = full_id(local[r].identifier)

\* C2 witness: a run on a miss went through every stage and wrote the cache
C2_Witness ==
    \E r \in Runs : /\ local[r].lookup = "miss"
                    /\ result[r].status = "ok"
                    /\ local[r].write = "ok"

\* C3: a failure of the cache write (to_dict or the store's set raised) never
\* fails the run: the extracted editorial and the problem data are returned.
C3_CacheWriteFailureSwallowed ==
    \A r \in Runs : local[r].write = "failed" =>
        result[r] = Returned(local[r].editorial, local[r].problem_data)

\* C4: a failure of the cache read (the store's get raised, or the stored
\* entry could not be deserialized) counts as a miss: the run goes on with the
\* whole pipeline, and no failure that reaches the caller comes from the read.
C4_CacheReadFailureIsMiss ==
    \A r \in Runs :
        /\ local[r].failed_at # "cache_get"
        /\ local[r].lookup = "failed" =>
            /\ ~IsBound(local[r].cached)
            /\ pc[r] \notin {"cache_check", "problem_hit", "cache_evict"}
            /\ IsPrefix(calls[r], MissCalls(local[r]))
            /\ result[r].status = "error" => Len(calls[r]) >= 2
            /\ result[r].status = "ok" =>
                 IsPrefix(<<"cache_get">> \o PipelineCalls, calls[r])

\* C4 witness: a run whose cache read failed returned an editorial
C4_Witness ==
    \E r \in Runs : local[r].lookup = "failed" /\ result[r].status = "ok"

\* C5: a run with use_cache false or without a cache client makes no cache
\* read and no cache write, whatever its outcome: the store is untouched.
C5_NoCacheAccessWhenDisabled ==
    \A r \in Runs : (pc[r] # "idle" /\ ~(args[r].use_cache /\ args[r].cache_client)) =>
        /\ \A i \in 1..Len(calls[r]) : calls[r][i] \notin CacheCalls
        /\ local[r].lookup = "none"
        /\ local[r].write = "none"
        /\ store = local[r].store_at_call

\* C5 witness: a run without caching returned an editorial
C5_Witness ==
    \E r \in Runs : /\ ~(args[r].use_cache /\ args[r].cache_client)
                    /\ result[r].status = "ok"

\* C6: whatever a stage raises, the caller gets a domain failure: a domain
\* failure unchanged, any other exception wrapped in a CodeforcesEditorialError
\* whose cause is that exception.
C6_OnlyDomainFailuresEscape ==
    \A r \in Runs : result[r].status = "error" =>
        /\ IsDomainError(result[r].exc)
        /\ IF IsDomainError(result[r].raised)
           THEN result[r].exc = result[r].raised
           ELSE result[r].exc = Exc("CodeforcesEditorialError", result[r].raised.kind)

\* C7: when URLParser.parse fails the run ends at once: no cache lookup, no
\* fetch, no LLM call and no cache write took place, and a URL parse error
\* reaches the caller unchanged.
C7_ResolveFailureIsImmediate ==
    \A r \in Runs : local[r].failed_at = "resolve" =>
        /\ pc[r] = "done"
        /\ calls[r] = <<>>
        /\ local[r].lookup = "none" /\ local[r].write = "none"
        /\ store = local[r].store_at_call
        /\ result[r].status = "error"
        /\ result[r].raised.kind = "URLParseError" => result[r].exc = result[r].raised

\* C7 witness: a run ended on a URL parse error
C7_Witness ==
    \E r \in Runs : /\ local[r].failed_at = "resolve"
                    /\ result[r].raised.kind = "URLParseError"

\* C8: a run that failed in resolve, problem-page fetch, tutorial finding,
\* tutorial parsing or extraction returns no editorial and wrote no entry; a
\* cache write happens only after the extraction of the same run succeeded.
C8_NoWriteWithoutExtraction ==
    \A r \in Runs :
        /\ local[r].failed_at \in PipelineStages =>
            /\ result[r].status = "error"
            /\ ~Has(calls[r], "cache_set")
            /\ local[r].write = "none"
            /\ NoEntryWritten(r)
        /\ (Has(calls[r], "cache_set") \/ local[r].write # "none" \/ ~NoEntryWritten(r)) =>
            /\ IsBound(local[r].editorial)
            /\ local[r].failed_at \notin PipelineStages
            /\ Has(calls[r], "extract")
            /\ \A j \in 1..Len(calls[r]) : calls[r][j] = "cache_set" =>
                 \E i \in 1..(j - 1) : calls[r][i] = "extract"

\* C8 witness: a run with caching enabled failed in the extraction
C8_Witness ==
    \E r \in Runs : /\ local[r].failed_at = "extract"
                    /\ CacheWriteEnabled(args[r])
                    /\ pc[r] = "done"

\* C9: a cache lookup never yields an expired entry (age in hours strictly
\* above ttl_hours): no run is on the hit path with an expired entry.
C9_LookupNeverYieldsExpired ==
    \A r \in Runs : local[r].lookup = "hit" =>
        ~is_expired(local[r].cached, DateTime(now, 0))

----------------------------------------------------------------------------
(* Properties of the serialization (specification SpecRoundTrip) *)

\* C10: from_dict(to_dict(c)) equals c for every CachedEditorial c.
C10_RoundTripIsIdentity == rt.step = "done" => rt.back = rt.c

\* The stages of get_editorial that fetch a required resource
FetchStages == {"parse_problem_page", "parse_tutorial"}

\* C13: when the fetch of the problem page or of the tutorial document met a
\* 404, get_editorial fails with the not-found failure raised by the fetch,
\* unchanged, and with no other failure kind.
C13_NotFoundPropagatesUnchanged ==
    \A r \in Runs :
        (/\ result[r].status = "error"
         /\ local[r].failed_at \in FetchStages
         /\ "NotFoundError" \in {result[r].raised.kind, result[r].raised.cause}) =>
            result[r].exc = Exc("NotFoundError", NoCause)

----------------------------------------------------------------------------
(* Properties of the HTTP clients and the parsers (specification SpecFetch) *)

\* C11: when an attempt of a get call receives an HTTP 404 response, the
\* client raises the not-found error after that attempt: a 404 is the last
\* attempt of its call.
C11_NotFoundIsNotRetried ==
    http.status # "idle" =>
        \A i \in 1..Len(http.attempts) :
            http.attempts[i] = Response(404) =>
                /\ i = Len(http.attempts)
                /\ http.status = "done"
                /\ IsRaised(http.result) /\ http.result.raised.kind = "NotFoundError"

\* C12: a fetch operation (get, get_text, get_bytes, get_content_type) that
\* fails for any reason other than an HTTP 404 fails with NetworkError,
\* timeouts and connection errors that last through all three attempts
\* included.
C12_OtherFailuresAreNetworkError ==
    (parser.kind = "direct" /\ parser.pc = "done" /\ IsRaised(parser.result)) =>
        IF http.attempts[Len(http.attempts)] = Response(404)
        THEN parser.result.raised.kind = "NotFoundError"
        ELSE parser.result.raised.kind = "NetworkError"

\* C20: TutorialParser.parse returns a tutorial document or fails with a
\* ParsingError whose cause is the exception raised while querying the content
\* type, fetching the body or decoding it; nothing else leaves parse.
C20_TutorialParserWrapsEverything ==
    (parser.kind = "TutorialParser" /\ parser.pc = "done") =>
        IF IsRaised(parser.result)
        THEN /\ parser.inner # NoResult
             /\ parser.result.raised = Exc("ParsingError", parser.inner.kind)
        ELSE /\ parser.inner = NoResult
             /\ parser.result.format \in {"pdf", "html"}

\* C20 witness: parse failed on a fetch for which the HTTP client raised the
\* not-found error
C20_Witness ==
    /\ parser.kind = "TutorialParser" /\ parser.pc = "done"
    /\ IsRaised(parser.result)
    /\ parser.inner.kind = "NotFoundError"

----------------------------------------------------------------------------
(* Properties of EditorialExtractor.extract (specification SpecExtract) *)

ExtractDone == extract.step = "done"

\* The AI call returned a mapping with a str under "raw_response" and the
\* client has a model name
WellFormed(ai) ==
    /\ ~ai.raises
    /\ ai.has_model
    /\ ai.response.type = "dict"
    /\ ai.response.has_key
    /\ ai.response.value.type = "str"

\* C14: extract succeeds only when the AI result is a mapping whose
\* "raw_response" value is a string and the client exposes a model name; the
\* empty string gives solution_text = ""; in every other case (None, list,
\* tuple, bare string, number, key missing, value None, number, list or
\* mapping, no model attribute, the AI call raises) it fails with
\* ExtractionError and gives no Editorial.
C14_OnlyWellFormedResponsesSucceed ==
    ExtractDone =>
        /\ ~IsRaised(extract.out) => WellFormed(extract.ai)
        /\ ~WellFormed(extract.ai) => extract.out = Raised("ExtractionError")
        /\ (WellFormed(extract.ai) /\ extract.ai.response.value.text = <<>>)
               => (~IsRaised(extract.out) /\ extract.out.solution_text = <<>>)

C14_Witness ==
    /\ ExtractDone
    /\ ~extract.ai.raises
    /\ ~extract.ai.has_model
    /\ extract.ai.response = PyDict(TRUE, PyStr(<<>>))
    /\ extract.out = Raised("ExtractionError")

\* The first token of t that is not whitespace is the literal NOT_FOUND
SentinelIsPrefix(t) ==
    \E i \in 1..Len(t) :
        /\ \A j \in 1..(i - 1) : IsBlank(t[j])
        /\ \E k \in 1..Len(t[i]) :
              /\ \A m \in 1..(k - 1) : t[i][m] = WS
              /\ t[i][k] = SENTINEL

\* The literal NOT_FOUND occurs somewhere in t
SentinelOccurs(t) == \E i \in 1..Len(t) : \E k \in 1..Len(t[i]) : t[i][k] = SENTINEL

\* C15: for every string response t, extract fails with ExtractionError iff
\* the trimmed t starts with the case-sensitive literal NOT_FOUND; for every
\* other t it succeeds and, without front matter, solution_text is the
\* trimmed t.
C15_NotFoundIffSentinelPrefix ==
    (ExtractDone /\ WellFormed(extract.ai)) =>
        LET t == extract.ai.response.value.text
        IN  /\ IsRaised(extract.out) <=> SentinelIsPrefix(t)
            /\ IsRaised(extract.out) => extract.out = Raised("ExtractionError")
            /\ (~SentinelIsPrefix(t) /\ front_matter_end(strip(t)) = 0)
                   => extract.out.solution_text = strip(t)

C15_Witness ==
    /\ ExtractDone
    /\ WellFormed(extract.ai)
    /\ SentinelOccurs(extract.ai.response.value.text)
    /\ ~SentinelIsPrefix(extract.ai.response.value.text)
    /\ ~IsRaised(extract.out)
    /\ extract.out.solution_text = strip(extract.ai.response.value.text)

\* The lines of s from the second on that are the delimiter
ClosingDelimiters(s) == {k \in 2..Len(s) : s[k] = DELIMITER}

\* The first of them
FirstClosing(s) == CHOOSE k \in ClosingDelimiters(s) : \A j \in ClosingDelimiters(s) : k <= j

\* s starts with "---", n >= 1 lines that are not "---", "---", exactly one
\* blank line and then content
FrontMatterShape(s, n) ==
    /\ n >= 1
    /\ Len(s) >= n + 4
    /\ s[1] = DELIMITER
    /\ \A j \in 2..(n + 1) : s[j] # DELIMITER
    /\ s[n + 2] = DELIMITER
    /\ s[n + 3] = <<>>
    /\ s[n + 4] # <<>>

\* C16: front matter is stripped only when the trimmed response starts with a
\* line "---", one or more lines, a line "---", exactly one blank line and
\* then content, and solution_text is then the trimmed remainder; with the
\* blank line missing, two blank lines, no closing delimiter or text before
\* the opening delimiter, solution_text is the full trimmed response.
C16_FrontMatterStrippedOnlyOnExactShape ==
    (ExtractDone /\ WellFormed(extract.ai) /\ ~IsRaised(extract.out)) =>
        LET s   == strip(extract.ai.response.value.text)
            sol == extract.out.solution_text
        IN  /\ \A n \in 1..Len(s) :
                  FrontMatterShape(s, n) => sol = strip(SubSeq(s, n + 4, Len(s)))
            /\ sol # s => \E n \in 1..Len(s) : FrontMatterShape(s, n)
            /\ (s # <<>> /\ s[1] # DELIMITER) => sol = s
            /\ ClosingDelimiters(s) = {} => sol = s
            /\ (ClosingDelimiters(s) # {} /\ FirstClosing(s) < Len(s)
                    /\ s[FirstClosing(s) + 1] # <<>>) => sol = s
            /\ (ClosingDelimiters(s) # {} /\ FirstClosing(s) + 1 < Len(s)
                    /\ s[FirstClosing(s) + 1] = <<>>
                    /\ s[FirstClosing(s) + 2] = <<>>) => sol = s

C16_Witness ==
    /\ ExtractDone
    /\ WellFormed(extract.ai)
    /\ extract.ai.response.value.text =
           <<DELIMITER, <<"meta">>, <<"meta">>, DELIMITER, <<>>, <<"meta">>>>
    /\ ~IsRaised(extract.out)
    /\ extract.out.solution_text = <<<<"meta">>>>

\* The lines of s that start with a fence
FenceLinesOf(s) == {i \in 1..Len(s) : IsFenceLine(s[i])}

\* The fence line that follows line i
ClosingOf(s, i) ==
    CHOOSE j \in FenceLinesOf(s) : j > i /\ \A k \in FenceLinesOf(s) : k > i => j <= k

\* The closed fences of s: a fence line opens when an even number of fence
\* lines precedes it, and is closed by the fence line that follows
ClosedFences(s) ==
    {i \in FenceLinesOf(s) :
        /\ Cardinality({j \in FenceLinesOf(s) : j < i}) % 2 = 0
        /\ \E j \in FenceLinesOf(s) : j > i}

\* Those with a body that is not blank
NonBlankFences(s) ==
    {i \in ClosedFences(s) : \E k \in (i + 1)..(ClosingOf(s, i) - 1) : ~IsBlank(s[k])}

----------------------------------------------------------------------------
(* Properties of the URL parsers (specification SpecUrl) *)

\* C18: for every valid identifier id (contest id of digits, index of one
\* uppercase letter and optional digits, gym flag true or false),
\* URLParser.parse(URLParser.build_problem_url(id)) equals id in contest id,
\* problem index and gym flag.
C18_ParseOfBuiltUrlIsTheIdentifier ==
    (urlcase.step = "done" /\ urlcase.op = "round_trip") =>
        /\ ~IsRaised(urlcase.out)
        /\ urlcase.out.contest_id = urlcase.id.contest_id
        /\ urlcase.out.problem_id = urlcase.id.problem_id
        /\ urlcase.out.is_gym = urlcase.id.is_gym

\* The path starts with one of the three shapes, with a numeric contest id
RecognizedPath(path) ==
    /\ Len(path) >= 4
    /\ StartsWithIndex(path[4])
    /\ \/ path[1] \in {Seg("contest"), Seg("gym")} /\ IsDigits(path[2]) /\ path[3] = Seg("problem")
       \/ path[1] = Seg("problemset") /\ path[2] = Seg("problem") /\ IsDigits(path[3])

\* A str with a scheme, a codeforces.com or codeforces.ru host and a path of
\* a recognized shape
IsProblemUrl(u) ==
    /\ u.scheme # ""
    /\ u.host \in {Seg(h) : h \in CodeforcesHosts}
    /\ RecognizedPath(u.path)

\* C19: URLParser.parse fails with URLParseError for every input that is not
\* a problem URL of one of the three recognized shapes on a codeforces.com or
\* codeforces.ru host: no scheme or host, another host, another Codeforces
\* page, a contest id that is not numeric.
C19_OtherInputsFailWithURLParseError ==
    (urlcase.step = "done" /\ urlcase.op = "parse" /\ urlcase.url.is_str
        /\ ~IsProblemUrl(urlcase.url))
        => urlcase.out = Raised("URLParseError")

----------------------------------------------------------------------------
(* Properties of TutorialFinder.find_tutorial (specification SpecFind) *)

FindDone == finder.pc = "done"

\* The model was asked (the contest page was fetched) and its trimmed reply
\* starts with "http"
ReplyStartsWithHttp ==
    /\ \E i \in 1..Len(finder.calls) : finder.calls[i].op = "find_editorial_link"
    /\ ~finder.answer.raises
    /\ rstrip_line(lstrip_line(finder.answer.reply)) # <<>>
    /\ Head(rstrip_line(lstrip_line(finder.answer.reply))) \in HttpPrefixes

\* The candidates among the first three of the search result that qualify
QualifyingCandidates ==
    {i \in 1..Len(finder.matches) : i <= FIRST_FEW /\ Qualifies(finder.matches[i])}

IsBlogCall(c) == c.target = "blog"

BlogCalls == SelectSeq(finder.calls, IsBlogCall)

\* C21: find_tutorial returns a URL or fails with EditorialNotFoundError, and
\* fails iff both strategies yield nothing; an exception of the network or of
\* the model inside a strategy, or while a candidate is checked, counts as
\* nothing found and never reaches the caller.
C21_FailsOnlyWhenBothStrategiesYieldNothing ==
    FindDone =>
        /\ IsRaised(finder.out) => finder.out = Raised("EditorialNotFoundError")
        /\ ~IsRaised(finder.out) => finder.out.found
        /\ IsRaised(finder.out) <=> (~ReplyStartsWithHttp /\ QualifyingCandidates = {})

C21_Witness ==
    /\ FindDone
    /\ finder.answer.raises
    /\ Len(finder.matches) >= 2
    /\ finder.matches[1] = "raises"
    /\ Qualifies(finder.matches[2])
    /\ ~IsRaised(finder.out)
    /\ finder.out.found

\* C22: the contest-page strategy always runs first; when it yields a URL,
\* that URL is returned and no search request is sent; the site-search
\* strategy runs only after the contest-page strategy yielded nothing.
C22_ContestPageFirstSearchOnlyAfterNothing ==
    /\ finder.calls # <<>> => finder.calls[1] = FinderCall("get_text", "contest", 0)
    /\ \A i \in 1..Len(finder.calls) :
          finder.calls[i].target \in {"search", "blog"}
              => (i > 1 /\ ~finder.first.found /\ ~ReplyStartsWithHttp)
    /\ (FindDone /\ ReplyStartsWithHttp)
          => (finder.out = finder.first /\ finder.first.found)

C22_Witness ==
    /\ FindDone
    /\ ReplyStartsWithHttp
    /\ finder.out = finder.first
    /\ Len(finder.calls) = 2

\* C23: the site-search strategy examines at most the first three candidates,
\* in their order; it returns the first whose body holds the problem index or
\* the full id and fetches none after it; a candidate whose fetch fails is
\* skipped; when none of the first three qualifies it yields nothing, even
\* when a later candidate would qualify.
C23_FirstQualifyingOfFirstThree ==
    /\ Len(BlogCalls) <= FIRST_FEW
    /\ \A i \in 1..Len(BlogCalls) : BlogCalls[i].n = i
    /\ (FindDone /\ ~ReplyStartsWithHttp /\ finder.matches # <<>>) =>
          IF QualifyingCandidates = {}
          THEN /\ finder.out = Raised("EditorialNotFoundError")
               /\ Len(BlogCalls) = Len(first_few(finder.matches))
               /\ Len(BlogCalls) = (IF Len(finder.matches) < FIRST_FEW
                                    THEN Len(finder.matches) ELSE FIRST_FEW)
          ELSE /\ ~IsRaised(finder.out)
               /\ finder.out.found
               /\ \A j \in QualifyingCandidates : Len(BlogCalls) <= j
               /\ Len(BlogCalls) \in QualifyingCandidates
               /\ finder.out.url[4] = Len(BlogCalls)

C23_Witness ==
    /\ FindDone
    /\ Len(finder.matches) = 4
    /\ finder.matches[1] = "raises"
    /\ finder.matches[2] = "other"
    /\ finder.matches[3] = "other"
    /\ Qualifies(finder.matches[4])
    /\ Len(BlogCalls) = 3
    /\ finder.out = Raised("EditorialNotFoundError")

\* C24: in the contest-page strategy a reply that, trimmed, does not start
\* with "http" (NOT_FOUND included) yields nothing; every other reply is
\* returned normalized, and every URL the strategy returns is absolute and
\* has the https scheme.
C24_ContestPageUrlIsAbsoluteHttps ==
    (finder.pc # "contest_page" /\ ~finder.answer.raises
        /\ \E i \in 1..Len(finder.calls) : finder.calls[i].op = "find_editorial_link") =>
        /\ ~ReplyStartsWithHttp => ~finder.first.found
        /\ ReplyStartsWithHttp =>
              /\ finder.first.found
              /\ finder.first.url =
                    _normalize_url(rstrip_line(lstrip_line(finder.answer.reply)))
        /\ finder.first.found => Head(finder.first.url) = "https://"

----------------------------------------------------------------------------
(* Properties of TutorialParser.parse (specification SpecFetch) *)

\* The wait of the JS-rendered fetch, in milliseconds
JS_WAIT_TIME == 5000

\* C25: TutorialParser.parse asks for the content type first and then
\* fetches the body over exactly one path: the bytes fetch for a content type
\* holding "pdf"; otherwise the JS-rendered fetch with a wait of 5000 ms for
\* a URL under a blog or contest path, and the static text fetch, once, for
\* every other URL.
C25_OneBodyFetchChosenByTypeAndUrl ==
    (parser.kind = "TutorialParser" /\ parser.content_type # "none") =>
        /\ Len(parser.fetches) = 2
        /\ parser.fetches[1] = Fetch("get_content_type")
        /\ parser.fetches[2] =
              IF IsPdf(parser.content_type) THEN Fetch("get_bytes")
              ELSE IF parser.url \in {"blog", "contest"}
                   THEN [op |-> "get_text_with_js", wait_time |-> JS_WAIT_TIME]
                   ELSE Fetch("get_text")

----------------------------------------------------------------------------
(* Properties of two concurrent calls (specification SpecConcurrent) *)

Other(r) == CHOOSE q \in Runs : q # r

BothDone == \A r \in Runs : pc[r] = "done"

\* The call extracted an editorial itself and returned it
ReturnsOwnExtraction(r) ==
    /\ "extract" \in {calls[r][i] : i \in 1..Len(calls[r])}
    /\ result[r].editorial = local[r].editorial

\* The call returned the editorial of the entry it read from the cache
ReturnsCachedEntry(r) ==
    /\ "extract" \notin {calls[r][i] : i \in 1..Len(calls[r])}
    /\ result[r].editorial = local[r].cached.editorial

\* The store holds the entry the call built
HoldsEntryOf(r) ==
    store[KeyOf(variant, SharedProblem)] =
        Item(to_dict("models", NewCachedEditorial(local[r], now)),
             now + cache_ttl_hours * SECONDS_PER_HOUR)

ConcurrentRunsIndependent ==
    \A r \in Runs :
        /\ pc[r] # "done" => ENABLED RunStep(r)
        /\ (pc[r] = "done" /\ result[r].status = "ok") =>
              IF local[r].lookup = "hit"
              THEN /\ ReturnsCachedEntry(r)
                   /\ local[Other(r)].write = "ok"
                   /\ local[r].cached.editorial = local[Other(r)].editorial
              ELSE ReturnsOwnExtraction(r)

\* A successful cache write leaves the writer's entry in the store, and
\* nothing but a successful cache write changes the store
LastWriteWins ==
    /\ \A r \in Runs :
          (local[r].write # "ok" /\ local'[r].write = "ok") => HoldsEntryOf(r)'
    /\ store' # store =>
          \E r \in Runs : local[r].write # "ok" /\ local'[r].write = "ok"

----------------------------------------------------------------------------
(* Properties of the client scopes (specification SpecClients) *)

\* C27: every HTTP, cache and LLM client opened for a pipeline run is closed
\* on every exit path of that run (success, failure, cancellation), also
\* when the close of another client raises or when the construction of a
\* later client fails.
C27_EveryOpenedClientIsClosed ==
    clients.pc = "done" => clients.opened \subseteq clients.closed

----------------------------------------------------------------------------
(* Properties of the cache keys (specification SpecKey) *)

\* C28: two identifiers that differ in contest id, problem index or gym flag
\* never have the same cache key, so a lookup for one problem never finds
\* the entry stored for another; problem X of gym contest N and problem X of
\* regular contest N have different keys.
C28_DistinctIdentifiersDistinctKeys ==
    (keycase.step = "done" /\ keycase.stored_for # keycase.lookup_for)
        => ~keycase.found

----------------------------------------------------------------------------
(* Properties of the eviction race (specification SpecRace) *)

\* The entry of the shared problem that is in the store and not expired
FreshEntryPresent ==
    LET it == StoreGet(store, KeyOf(variant, SharedProblem), now) IN
    /\ ~it.absent
    /\ ~IsRaised(from_dict("models", it.data))
    /\ ~is_expired(from_dict("models", it.data), DateTime(now, 0))

\* C30: the eviction of EditorialCache.get for an expired entry never
\* removes a fresh entry another call stored between the read and the
\* delete: once a call has written its entry, an unexpired entry stays in
\* the store.
C30_EvictionKeepsFreshEntry ==
    (\E r \in Runs : local[r].write = "ok") => FreshEntryPresent

----------------------------------------------------------------------------
(* Properties of a repeated call (specification SpecRepeat) *)

CallsOf(r) == {calls[r][i] : i \in 1..Len(calls[r])}

\* The four fields of an editorial the caller sees
SameEditorial(a, b) ==
    /\ a.problem_id = b.problem_id
    /\ a.solution_text = b.solution_text
    /\ a.source_url = b.source_url
    /\ a.extracted_at = b.extracted_at

\* The first call missed, extracted, wrote its entry and returned; the second
\* call asks for the same identifier with the cache enabled, before the TTL
\* of the entry has elapsed
RepeatWithinTTL ==
    /\ pc["r1"] = "done"
    /\ result["r1"].status = "ok"
    /\ local["r1"].lookup # "hit"
    /\ local["r1"].write = "ok"
    /\ pc["r2"] # "idle"
    /\ IsBound(local["r2"].identifier)
    /\ local["r2"].identifier = local["r1"].identifier
    /\ CacheCheckEnabled(args["r2"])
    /\ now - result["r1"].editorial.extracted_at.sec < DEFAULT_TTL_HOURS * SECONDS_PER_HOUR

====
